---- MODULE Spec2Model ----
(***************************************************************************)
(* Model of the deriva-groups-ui client: the axios interceptors of the     *)
(* API access layer, the AuthProvider session manager and the page         *)
(* components (GroupDetail, Dashboard, Invitations, AcceptInvitation).     *)
(*                                                                         *)
(* JavaScript values are written as their literals: "undefined", "true",   *)
(* "false", "0", "" ...; a nullable React state is a set with at most one  *)
(* element ({} is null).  URLs are sequences of one-character strings so   *)
(* that encodeURIComponent can be computed character by character.         *)
(***************************************************************************)
EXTENDS Integers, Sequences, FiniteSets, Bags, TLC

VARIABLES
  env,          \* import.meta.env as resolved at startup
  href,         \* window.location.href of the current document
  navTarget,    \* last value assigned to window.location.href (<<>>: none)
  httpPending,  \* per axios instance: requests sent and not yet settled
  authToken,    \* localStorage.getItem('authToken'): "null" when the key is absent
  httpSent,     \* the request that left in this step, as the request interceptor
                \* returned it (NoRequest: this step sent none)
  httpLast      \* the promise settled last by the response interceptor

httpVars == <<env, href, navTarget, httpPending, authToken, httpSent, httpLast>>

(***************************************************************************)
(* JavaScript helpers                                                      *)
(***************************************************************************)
\* values that are falsy under JS `||` and `if (...)`
Falsy(v) == v \in {"undefined", "null", "false", "0", ""}

\* a || b
JsOr(a, b) == IF Falsy(a) THEN b ELSE a

RECURSIVE Concat(_)
\* flattens a sequence of character sequences (template literal)
Concat(ss) == IF ss = <<>> THEN <<>> ELSE Head(ss) \o Concat(Tail(ss))

\* characters encodeURIComponent leaves alone (the ones used by the model)
Unreserved ==
  {"a", "b", "d", "e", "g", "h", "i", "j", "n", "p", "r", "s", "t", "u", "v", "1", "2",
   "-", "_", "."}

\* percent escapes of the reserved characters used by the model
PercentCode(c) ==
  CASE c = ":" -> <<"%", "3", "A">>
    [] c = "/" -> <<"%", "2", "F">>
    [] c = "?" -> <<"%", "3", "F">>
    [] c = "=" -> <<"%", "3", "D">>
    [] c = "&" -> <<"%", "2", "6">>
    [] c = "#" -> <<"%", "2", "3">>
    [] c = "%" -> <<"%", "2", "5">>
    [] OTHER   -> <<"%", "2", "0">>

RECURSIVE encodeURIComponent(_)
encodeURIComponent(s) ==
  IF s = <<>> THEN <<>>
  ELSE (IF Head(s) \in Unreserved THEN <<Head(s)>> ELSE PercentCode(Head(s)))
       \o encodeURIComponent(Tail(s))

(***************************************************************************)
(* Configuration (api.ts, top of file)                                     *)
(***************************************************************************)
Origin == <<"h", ":", "/", "/", "h">>

\* the build environments considered: production defaults, production with
\* an auth path override, development with a separate auth backend
Envs ==
  { [MODE |-> "production",  VITE_BASE_URL |-> <<>>, VITE_AUTH_API_BASE_PATH |-> <<>>,
     VITE_AUTH_URL |-> <<>>, VITE_UI_BASE_PATH |-> <<>>],
    [MODE |-> "production",  VITE_BASE_URL |-> <<"h", ":", "/", "/", "b">>,
     VITE_AUTH_API_BASE_PATH |-> <<"/", "a">>, VITE_AUTH_URL |-> <<"h", ":", "/", "/", "u">>,
     VITE_UI_BASE_PATH |-> <<"/", "u", "i">>],
    [MODE |-> "development", VITE_BASE_URL |-> <<>>, VITE_AUTH_API_BASE_PATH |-> <<>>,
     VITE_AUTH_URL |-> <<"h", ":", "/", "/", "u">>, VITE_UI_BASE_PATH |-> <<>>] }

\* const baseUrl = import.meta.env.VITE_BASE_URL || window.location.origin
baseUrl(e) == IF e.VITE_BASE_URL # <<>> THEN e.VITE_BASE_URL ELSE Origin

getAuthApiBaseUrl(e) ==
  LET authApiBasePath == IF e.VITE_AUTH_API_BASE_PATH # <<>>
                         THEN e.VITE_AUTH_API_BASE_PATH
                         ELSE <<"/", "a", "u", "t", "h", "n">>
  IN IF e.MODE = "development" /\ e.VITE_AUTH_URL # <<>>
     THEN e.VITE_AUTH_URL
     ELSE baseUrl(e) \o authApiBasePath

AUTH_API_BASE_URL(e) == getAuthApiBaseUrl(e)

\* the two axios instances; setupInterceptors is applied to both
Clients == {"api", "auth"}

\* setupInterceptors(api, AUTH_API_BASE_URL); setupInterceptors(auth, AUTH_API_BASE_URL)
InterceptorAuthBase(client, e) == AUTH_API_BASE_URL(e)

(***************************************************************************)
(* Axios errors                                                            *)
(***************************************************************************)
NoData == [present |-> FALSE, message |-> "undefined", error |-> "undefined",
           detail |-> "undefined"]

Bodies ==
  { NoData,
    [present |-> TRUE, message |-> "msg", error |-> "err", detail |-> "undefined"],
    [present |-> TRUE, message |-> "",    error |-> "err", detail |-> "det"],
    [present |-> TRUE, message |-> "undefined", error |-> "undefined", detail |-> "det"],
    [present |-> TRUE, message |-> "undefined", error |-> "undefined", detail |-> "undefined"] }

Statuses == {401, 403, 404, 500}

\* an error with a response, and the two kinds without one
ResponseErrors ==
  { [response |-> TRUE, status |-> s, data |-> d, request |-> TRUE] :
      s \in Statuses, d \in Bodies }

NoResponseErrors ==
  { [response |-> FALSE, status |-> 0, data |-> NoData, request |-> r] : r \in BOOLEAN }

AxiosErrors == ResponseErrors \cup NoResponseErrors

\* error.response?.status === s
StatusIs(err, s) == err.response /\ err.status = s

(***************************************************************************)
(* Response interceptor (setupInterceptors, error branch)                  *)
(***************************************************************************)
\* faulty variant of LoginRedirectUrl: the referrer is appended unencoded
LoginUrlRawReferrer(authBaseUrl, location) ==
  Concat(<< authBaseUrl,
            <<"/", "l", "o", "g", "i", "n", "?", "r", "e", "f", "e", "r", "r", "e", "r", "=">>,
            location >>)

\* `${authBaseUrl}/login?referrer=${encodeURIComponent(window.location.href)}`
LoginRedirectUrl(authBaseUrl, location) ==
  Concat(<< authBaseUrl,
            <<"/", "l", "o", "g", "i", "n", "?", "r", "e", "f", "e", "r", "r", "e", "r", "=">>,
            encodeURIComponent(location) >>)

UserMessageOf(err) ==
  IF err.response /\ err.data.present
  THEN JsOr(err.data.message,
            JsOr(err.data.error,
                 JsOr(err.data.detail,
                      "Server error (" \o ToString(err.status) \o ")")))
  ELSE IF err.request
       THEN "Unable to connect to server. Please check your internet connection."
       ELSE "An unexpected error occurred"

\* what the rejected-response handler does with an error: the promise outcome,
\* the (possibly annotated) error and the value assigned to location.href
ResponseInterceptor(err, authBaseUrl, location) ==
  IF StatusIs(err, 401)
  THEN [outcome |-> "rejected", userMessage |-> "undefined", redirect |-> TRUE,
        location |-> LoginRedirectUrl(authBaseUrl, location)]
  ELSE [outcome |-> "rejected", userMessage |-> UserMessageOf(err), redirect |-> FALSE,
        location |-> <<>>]

(***************************************************************************)
(* HTTP layer as a state machine: requests through the two axios instances *)
(***************************************************************************)
\* at most this many requests of one axios instance are in flight at a time
MaxPending == 2

\* pages of the application the browser can be on
Hrefs ==
  { Origin \o <<"/", "g">>,
    Origin \o <<"/", "g", "/", "1">>,
    Origin \o <<"/", "i", "/", "t", "?", "a", "=", "b", "&", "p", "#", "2">> }

NoError == [response |-> FALSE, status |-> 0, data |-> NoData, request |-> FALSE]

NoSettled ==
  [settled |-> "none", failed |-> FALSE, client |-> "api", err |-> NoError,
   userMessage |-> "undefined", hrefAt |-> <<>>, assigned |-> <<>>,
   caller |-> "none", referrer |-> <<>>]

\* values of the authToken key of local storage: absent, empty, two tokens
AuthTokens == {"null", "", "t1", "t2"}

\* a request configuration before the request interceptor: method and path on
\* instance c, the `redirect` query parameter (<<>>: none)
Request(c, method, path, redirect) ==
  [client |-> c, method |-> method, path |-> path, redirect |-> redirect,
   Authorization |-> "undefined"]

NoRequest == Request("none", "-", "-", <<>>)

\* faulty variant of RequestInterceptor: the header is attached whatever the
\* stored value is
RequestInterceptorAlways(config, token) ==
  [config EXCEPT !.Authorization = "Bearer " \o token]

\* the fulfilled-request handler of setupInterceptors; token is what
\* localStorage.getItem('authToken') returns when the request is sent
RequestInterceptor(config, token) ==
  IF token \notin {"null", ""}
  THEN [config EXCEPT !.Authorization = "Bearer " \o token]
  ELSE config

InitHttp ==
  /\ env \in Envs
  /\ href \in Hrefs
  /\ navTarget = <<>>
  /\ httpPending = [c \in Clients |-> 0]
  /\ authToken = "null"
  /\ httpSent = NoRequest
  /\ httpLast = NoSettled

\* another script of the origin (or the user) writes or removes the authToken
\* key of local storage; the client itself never writes it
StorageSet(t) ==
  /\ navTarget = <<>>
  /\ t \in AuthTokens /\ t # authToken
  /\ authToken' = t
  /\ httpSent' = NoRequest
  /\ UNCHANGED <<env, href, navTarget, httpPending, httpLast>>

\* api.get / api.post / auth.get ...: a request leaves through instance c
HttpSend(c) ==
  /\ navTarget = <<>>
  /\ httpPending[c] < MaxPending
  /\ httpPending' = [httpPending EXCEPT ![c] = @ + 1]
  /\ httpSent' = RequestInterceptor(Request(c, "-", "-", <<>>), authToken)
  /\ UNCHANGED <<env, href, navTarget, httpLast, authToken>>

\* (response) => response
HttpRespondOk(c) ==
  /\ httpPending[c] > 0
  /\ httpPending' = [httpPending EXCEPT ![c] = @ - 1]
  /\ httpSent' = NoRequest
  /\ UNCHANGED authToken
  /\ httpLast' = [settled |-> "resolved", failed |-> FALSE, client |-> c, err |-> NoError,
                  userMessage |-> "undefined", hrefAt |-> href, assigned |-> <<>>,
                  caller |-> "none", referrer |-> <<>>]
  /\ UNCHANGED <<env, href, navTarget>>

\* (error) => { ... return Promise.reject(error) }
HttpRespondErr(c, err) ==
  /\ httpPending[c] > 0
  /\ httpPending' = [httpPending EXCEPT ![c] = @ - 1]
  /\ httpSent' = NoRequest
  /\ UNCHANGED authToken
  /\ LET r == ResponseInterceptor(err, InterceptorAuthBase(c, env), href)
     IN /\ httpLast' = [settled |-> r.outcome, failed |-> TRUE, client |-> c, err |-> err,
                        userMessage |-> r.userMessage, hrefAt |-> href,
                        assigned |-> r.location, caller |-> "none", referrer |-> <<>>]
        /\ navTarget' = IF r.redirect THEN r.location ELSE navTarget
  /\ UNCHANGED <<env, href>>

\* client-side routing moves the document to another page of the application
HttpNavigate(h) ==
  /\ navTarget = <<>>
  /\ h \in Hrefs /\ h # href
  /\ href' = h
  /\ httpSent' = NoRequest
  /\ UNCHANGED <<env, navTarget, httpPending, authToken, httpLast>>

\* faulty variant of AuthLoginUrl: the referrer argument is dropped
AuthLoginUrlDefaultOnly(e, referrer) ==
  LET uiBasePath == IF e.VITE_UI_BASE_PATH # <<>> THEN e.VITE_UI_BASE_PATH
                    ELSE <<"/", "d", "e", "r", "i", "v", "a", "/", "a", "p", "p", "s">>
  IN Concat(<< AUTH_API_BASE_URL(e),
               <<"/", "l", "o", "g", "i", "n", "?", "r", "e", "f", "e", "r", "r", "e", "r", "=">>,
               encodeURIComponent(Concat(<<Origin, uiBasePath, <<"/">>>>)) >>)

\* authAPI.login: the URL assigned to window.location.href; referrer <<>> is
\* an omitted (or empty) argument
AuthLoginUrl(e, referrer) ==
  LET uiBasePath == IF e.VITE_UI_BASE_PATH # <<>> THEN e.VITE_UI_BASE_PATH
                    ELSE <<"/", "d", "e", "r", "i", "v", "a", "/", "a", "p", "p", "s">>
      defaultReferrer == Concat(<<Origin, uiBasePath, <<"/">>>>)
      redirect == IF referrer # <<>> THEN referrer ELSE defaultReferrer
  IN Concat(<< AUTH_API_BASE_URL(e),
               <<"/", "l", "o", "g", "i", "n", "?", "r", "e", "f", "e", "r", "r", "e", "r", "=">>,
               encodeURIComponent(redirect) >>)

\* useAuth().login(referrer) -> authAPI.login(referrer): no request is made,
\* the browser is sent to the login endpoint of the auth service
authLogin(caller, referrer) ==
  /\ navTarget = <<>>
  /\ navTarget' = AuthLoginUrl(env, referrer)
  /\ httpLast' = [settled |-> "login", failed |-> FALSE, client |-> "auth", err |-> NoError,
                  userMessage |-> "undefined", hrefAt |-> href,
                  assigned |-> AuthLoginUrl(env, referrer),
                  caller |-> caller, referrer |-> referrer]
  /\ httpSent' = NoRequest
  /\ UNCHANGED <<env, href, httpPending, authToken>>

\* handleLogin of AcceptInvitation and RequestToJoin: login(window.location.href)
handleLogin == authLogin("handleLogin", href)

\* the browser follows the assignment to location.href; after sign-in the auth
\* service sends it back to the referrer and the application starts afresh
HttpReturnFromLogin ==
  /\ navTarget # <<>>
  /\ navTarget' = <<>>
  /\ httpPending' = [c \in Clients |-> 0]
  /\ httpSent' = NoRequest
  /\ httpLast' = NoSettled
  /\ UNCHANGED <<env, href, authToken>>

(***************************************************************************)
(* Session manager (AuthContext.tsx, AuthProvider)                         *)
(***************************************************************************)
VARIABLES
  user,          \* useState<User | null>: {} is null, {u} a user record
  authLoading,   \* useState(true)
  authError,     \* useState<string | null>: "null" or the message
  authMounted,   \* the mount effect has run
  fetches,       \* calls of fetchUser awaiting the /session response
  lastFetch,     \* history: how the fetchUser call that completed last ended
  logouts,       \* calls of logout awaiting the /logout response
  lastLogout     \* what the logout call of this step did (NoLogout: no such step)

authVars ==
  <<user, authLoading, authError, authMounted, fetches, lastFetch, logouts, lastLogout>>

\* fetchUser calls that may be awaiting a response at the same time
MaxFetches == 2

\* field values a /session payload may carry ("undefined": the key is missing)
SessionFields ==
  [ id : {"u1"}, email : {"e1"}, name : {"n1"}, full_name : {"f1", "undefined"},
    email_verified : {"true", "false", "undefined"},
    group_memberships : {"[m1]", "[]", "undefined"},
    pending_invitations_count : {"2", "0", "undefined"} ]

NoClient == [defined |-> FALSE, id |-> "undefined", email |-> "undefined",
             display_name |-> "undefined", full_name |-> "undefined"]

\* legacy payload: the identity fields sit under `client`
LegacyPayload(f) ==
  [ client |-> [defined |-> TRUE, id |-> f.id, email |-> f.email,
                display_name |-> f.name, full_name |-> f.full_name],
    id |-> "undefined", email |-> "undefined", preferred_username |-> "undefined",
    full_name |-> "undefined",
    email_verified |-> f.email_verified,
    group_memberships |-> f.group_memberships,
    pending_invitations_count |-> f.pending_invitations_count ]

\* flat payload: the identity fields sit at top level
FlatPayload(f) ==
  [ client |-> NoClient,
    id |-> f.id, email |-> f.email, preferred_username |-> f.name,
    full_name |-> f.full_name,
    email_verified |-> f.email_verified,
    group_memberships |-> f.group_memberships,
    pending_invitations_count |-> f.pending_invitations_count ]

Shapes == {"legacy", "flat"}

PayloadOf(shape, f) == IF shape = "legacy" THEN LegacyPayload(f) ELSE FlatPayload(f)

\* fetchUser, lines 39-65: the User record built from response.data
NormalizeUser(data) ==
  IF data.client.defined
  THEN [ id |-> data.client.id,
         email |-> data.client.email,
         preferred_username |-> data.client.display_name,
         full_name |-> data.client.full_name,
         email_verified |-> JsOr(data.email_verified, "unknown"),
         group_memberships |-> JsOr(data.group_memberships, "[]"),
         pending_invitations_count |-> JsOr(data.pending_invitations_count, "0") ]
  ELSE [ id |-> data.id,
         email |-> data.email,
         preferred_username |-> data.preferred_username,
         full_name |-> data.full_name,
         email_verified |-> data.email_verified,
         group_memberships |-> JsOr(data.group_memberships, "[]"),
         pending_invitations_count |-> JsOr(data.pending_invitations_count, "0") ]

SessionFetchError == "Failed to fetch user information"

NoFetch == [kind |-> "none", shape |-> "flat", fields |-> CHOOSE f \in SessionFields : TRUE,
            err |-> NoError]

\* response.data of /logout: absent (the 303 of the non-legacy service was
\* followed and left no JSON), JSON without logout_url, JSON with one
LogoutUrl == <<"h", ":", "/", "/", "o">>

LogoutBodies ==
  { [present |-> FALSE, logout_url |-> <<>>],
    [present |-> TRUE,  logout_url |-> <<>>],
    [present |-> TRUE,  logout_url |-> LogoutUrl] }

NoLogout ==
  [kind |-> "none", redirectUrl |-> <<>>, body |-> [present |-> FALSE, logout_url |-> <<>>],
   failed |-> FALSE, err |-> NoError]

InitAuth ==
  /\ user = {}
  /\ authLoading = TRUE
  /\ authError = "null"
  /\ authMounted = FALSE
  /\ fetches = 0
  /\ lastFetch = NoFetch
  /\ logouts = 0
  /\ lastLogout = NoLogout

\* fetchUser up to the await: setLoading(true); setError(null); auth.get('/session')
FetchUserStart ==
  /\ fetches < MaxFetches
  /\ authLoading' = TRUE
  /\ authError' = "null"
  /\ fetches' = fetches + 1
  /\ lastLogout' = NoLogout
  /\ UNCHANGED <<user, lastFetch, logouts>>

\* useEffect(() => { fetchUser(); }, [])
AuthMount ==
  /\ ~authMounted
  /\ authMounted' = TRUE
  /\ FetchUserStart
  /\ UNCHANGED httpVars

\* refreshUser(): a consumer of the context asks for the session again
RefreshUser ==
  /\ authMounted
  /\ FetchUserStart
  /\ UNCHANGED <<authMounted, httpVars>>

\* the response arrives: normalise, setUser(user); finally setLoading(false)
FetchUserOk(shape, f) ==
  /\ fetches > 0
  /\ fetches' = fetches - 1
  /\ user' = {NormalizeUser(PayloadOf(shape, f))}
  /\ authLoading' = FALSE
  /\ lastFetch' = [kind |-> "ok", shape |-> shape, fields |-> f, err |-> NoError]
  /\ lastLogout' = NoLogout
  /\ UNCHANGED <<authError, authMounted, logouts, httpVars>>

\* faulty variant of CatchUser: every failure signs the user out
CatchUserAlwaysNull(err, prev) == {}

\* the user state after the catch branch: setUser(null) for a 404 only
CatchUser(err, prev) == IF StatusIs(err, 404) THEN {} ELSE prev

\* the request fails: the interceptor of `auth` runs first, then the catch branch
FetchUserErr(err) ==
  /\ fetches > 0
  /\ fetches' = fetches - 1
  /\ LET r == ResponseInterceptor(err, InterceptorAuthBase("auth", env), href)
     IN navTarget' = IF r.redirect THEN r.location ELSE navTarget
  /\ user' = CatchUser(err, user)
  /\ authError' = IF StatusIs(err, 404) THEN authError ELSE SessionFetchError
  /\ authLoading' = FALSE
  /\ lastFetch' = [kind |-> IF StatusIs(err, 404) THEN "404" ELSE "fail",
                   shape |-> lastFetch.shape, fields |-> lastFetch.fields, err |-> err]
  /\ lastLogout' = NoLogout
  /\ UNCHANGED <<authMounted, logouts, env, href, httpPending, authToken, httpSent, httpLast>>

\* logout calls that may be awaiting a response at the same time
MaxLogouts == 2

\* const redirect = redirectUrl || defaultRedirect
LogoutRedirect(e, redirectUrl) ==
  LET uiBasePath == IF e.VITE_UI_BASE_PATH # <<>> THEN e.VITE_UI_BASE_PATH
                    ELSE <<"/", "d", "e", "r", "i", "v", "a", "/", "a", "p", "p", "s">>
      defaultRedirect == Concat(<<Origin, uiBasePath, <<"/">>>>)
  IN IF redirectUrl # <<>> THEN redirectUrl ELSE defaultRedirect

\* faulty variant of LogoutTarget: the browser is sent on whatever the body is
LogoutTargetAlways(body, current) == body.logout_url

\* if (response.data && response.data.logout_url) window.location.href = ...:
\* the value of location.href assignments after the response was handled
LogoutTarget(body, current) ==
  IF body.present /\ body.logout_url # <<>> THEN body.logout_url ELSE current

\* useAuth().logout(redirectUrl) -> authAPI.logout up to the await:
\* auth.get('/logout', { params: { redirect } })
LogoutCall(redirectUrl) ==
  /\ authMounted
  /\ logouts < MaxLogouts
  /\ httpPending["auth"] < MaxPending
  /\ logouts' = logouts + 1
  /\ httpPending' = [httpPending EXCEPT !["auth"] = @ + 1]
  /\ httpSent' = RequestInterceptor(
                    Request("auth", "GET", "/logout", LogoutRedirect(env, redirectUrl)),
                    authToken)
  /\ lastLogout' = [NoLogout EXCEPT !.kind = "called", !.redirectUrl = redirectUrl]
  /\ UNCHANGED <<user, authLoading, authError, authMounted, fetches, lastFetch>>
  /\ UNCHANGED <<env, href, navTarget, authToken, httpLast>>

\* the response arrives: follow logout_url if the body has one; logout resolves
LogoutOk(body) ==
  /\ logouts > 0
  /\ logouts' = logouts - 1
  /\ httpPending' = [httpPending EXCEPT !["auth"] = @ - 1]
  /\ httpSent' = NoRequest
  /\ navTarget' = LogoutTarget(body, navTarget)
  /\ lastLogout' = [NoLogout EXCEPT !.kind = "resolved", !.body = body]
  /\ UNCHANGED <<user, authLoading, authError, authMounted, fetches, lastFetch>>
  /\ UNCHANGED <<env, href, authToken, httpLast>>

\* the request fails: the interceptor of `auth` runs, the catch branch logs
\* the error and logout resolves
LogoutErr(err) ==
  /\ logouts > 0
  /\ logouts' = logouts - 1
  /\ httpPending' = [httpPending EXCEPT !["auth"] = @ - 1]
  /\ httpSent' = NoRequest
  /\ LET r == ResponseInterceptor(err, InterceptorAuthBase("auth", env), href)
     IN navTarget' = IF r.redirect THEN r.location ELSE navTarget
  /\ lastLogout' = [NoLogout EXCEPT !.kind = "resolved", !.failed = TRUE, !.err = err]
  /\ UNCHANGED <<user, authLoading, authError, authMounted, fetches, lastFetch>>
  /\ UNCHANGED <<env, href, authToken, httpLast>>

\* errors a /logout request is answered with in the model
LogoutErrors ==
  { e \in AxiosErrors : e.data = NoData /\ (e.response => e.status \in {401, 500}) }

\* errors a /session request is answered with in the model
SessionErrors ==
  { e \in AxiosErrors : e.data \in {NoData, [present |-> TRUE, message |-> "msg",
                                              error |-> "err", detail |-> "undefined"]} }

(***************************************************************************)
(* View layer: shared state                                                *)
(***************************************************************************)
VARIABLES
  page,        \* the route element mounted: Groups, GroupDetail, Dashboard, ...
  now,         \* the client clock (new Date())
  srv,         \* the groups service: the state the REST API reads and writes
  gd,          \* GroupDetail: its useState cells and the groupId route parameter
  dash,        \* Dashboard: its useState cells
  inbox,       \* Invitations: its useState cells
  acc,         \* AcceptInvitation: its useState cells and the token parameter
  rtj,         \* RequestToJoin: its useState cells and the token / groupId parameter
  grp,         \* Groups: its useState cells
  loads,       \* bag of page loads (loadGroupData, ...) suspended at an await
  acts,        \* bag of mutating handlers suspended at their await
  clicks,      \* number of gestures the user has made in this session
  refetched,   \* join requests whose approval succeeded and whose re-fetch has completed
  toast,       \* the notification the last step raised through react-hot-toast
  lastConfirm, \* the window.confirm dialog the last step showed, and its answer
  lastAct,     \* the mutating call the last step settled, and its outcome
  lastErr      \* the error the request settled by the last step failed with

viewVars ==
  <<page, now, srv, gd, dash, inbox, acc, rtj, grp, loads, acts, clicks, refetched, toast,
    lastConfirm, lastAct, lastErr>>

vars == <<httpVars, authVars, viewVars>>

\* the clock runs from 0 to MaxTime
MaxTime == 1

\* page loads and mutating calls that may be in flight at the same time
MaxInFlight == 2

\* user gestures (navigations, clicks, form submissions) in one session
MaxClicks == 4

Roles == {"member", "manager", "administrator"}

\* the roles picked when approving a join request or inviting a member
FormRoles == {"member", "administrator"}

Groups == {"g1", "g2"}

\* the signed-in user and the other member of every group
Me == "u1"

Other == "u2"

Pages ==
  {"Groups", "GroupDetail", "Dashboard", "Invitations", "AcceptInvitation", "RequestToJoin"}

\* invitation tokens addressed to the signed-in user
Tokens == {"t1", "t2"}

\* join links of group g2: j1 has expired at time 0, j2 never expires
JoinTokens == {"j1", "j2"}

\* errors a request of a page is answered with in the model
Unauthorized == [response |-> TRUE, status |-> 401, data |-> NoData, request |-> TRUE]

Forbidden ==
  [response |-> TRUE, status |-> 403, request |-> TRUE,
   data |-> [present |-> TRUE, message |-> "msg", error |-> "err", detail |-> "undefined"]]

NotFound == [response |-> TRUE, status |-> 404, data |-> NoData, request |-> TRUE]

NotFoundMsg ==
  [response |-> TRUE, status |-> 404, request |-> TRUE,
   data |-> [present |-> TRUE, message |-> "gone", error |-> "undefined",
             detail |-> "undefined"]]

ServerError ==
  [response |-> TRUE, status |-> 500, request |-> TRUE,
   data |-> [present |-> TRUE, message |-> "undefined", error |-> "undefined",
             detail |-> "undefined"]]

\* the failures considered for a read of GroupDetail, of the Dashboard and the
\* inbox, of the invitation page, and for a mutating call
GroupLoadErrors == {Unauthorized, Forbidden, NotFoundMsg, ServerError}

ListLoadErrors == {Unauthorized, Forbidden, ServerError}

TokenLoadErrors == {Unauthorized, Forbidden, NotFound, NotFoundMsg, ServerError}

CallErrors == {Unauthorized, Forbidden}

\* the URL of a route: /g, /g/<n>, /d, /i, /i/t<n> under the origin
PageHref(p, id) ==
  LET n == IF id \in {"g1", "t1", "j1"} THEN <<"1">> ELSE <<"2">>
  IN CASE p = "Groups"           -> Origin \o <<"/", "g">>
       [] p = "GroupDetail"      -> Origin \o <<"/", "g", "/">> \o n
       [] p = "Dashboard"        -> Origin \o <<"/", "d">>
       [] p = "Invitations"      -> Origin \o <<"/", "i">>
       [] p = "AcceptInvitation" -> Origin \o <<"/", "i", "/", "t">> \o n
       [] p = "RequestToJoin"    ->
            Origin \o (IF id \in Groups THEN <<"/", "j", "g", "/">> ELSE <<"/", "j", "/">>) \o n

\* toast, lastConfirm and lastAct are the outputs of the last step: the
\* notification it raised, the confirm dialog it showed with the user's answer,
\* and the mutating call whose promise it settled
NoToast == [kind |-> "none", msg |-> ""]

NoConfirm == [op |-> "none", answer |-> FALSE]

NoSettle == [kind |-> "none", ok |-> FALSE]

\* faulty variant of Toast: every notification is an error notification
ToastAlwaysError(kind, msg) == [kind |-> "error", msg |-> msg]

\* toast.success(msg) / toast.error(msg)
Toast(kind, msg) == [kind |-> kind, msg |-> msg]

Silent == toast' = NoToast

NoDialog == lastConfirm' = NoConfirm

NoCall == lastAct' = NoSettle

\* the document is still loaded: no navigation to the login page has begun
Alive == navTarget = <<>>

InFlight == BagCardinality(loads) + BagCardinality(acts)

\* the step is a gesture of the user
Gesture == clicks < MaxClicks /\ clicks' = clicks + 1

\* array.slice(0, n)
Slice(s, n) == SubSeq(s, 1, IF Len(s) < n THEN Len(s) ELSE n)

\* array.filter(pred).length
RECURSIVE CountRole(_, _)
CountRole(s, role) ==
  IF s = <<>> THEN 0
  ELSE (IF Head(s).role = role THEN 1 ELSE 0) + CountRole(Tail(s), role)

\* new Date(expiresAt) < new Date()
isInvitationExpired(expiresAt) == expiresAt < now

(***************************************************************************)
(* The groups service (external collaborator; only its contract is used)   *)
(***************************************************************************)
\* role maps of the signed-in user the service may start with
\* ("none": the group is visible but the user is not a member of it)
InitRoleMaps ==
  { [g \in Groups |-> IF g = "g1" THEN "administrator" ELSE "member"],
    [g \in Groups |-> IF g = "g1" THEN "manager" ELSE "none"] }

InitSrvStates ==
  { [ role  |-> rm,
              other |-> [g \in Groups |-> "member"],
              inv   |-> { [id |-> "i1", group_id |-> "g1", status |-> "pending",
                           expires_at |-> 0] },
              jr    |-> { [id |-> "r1", group_id |-> "g1", status |-> "pending"],
                          [id |-> "r2", group_id |-> "g2", status |-> "pending"] },
              mine  |-> [t \in Tokens |->
                           [status |-> "pending", expires_at |-> IF t = "t1" THEN 0 ELSE MaxTime + 1]] ]
            : rm \in InitRoleMaps }

InitSrv == srv \in InitSrvStates

CanManageRole(r) == r = "administrator" \/ r = "manager"

\* GET /groups/{id}
SrvGroup(g) == [id |-> g, role |-> srv.role[g]]

\* GET /groups/{id}/members
SrvMembers(g) ==
  (IF srv.role[g] \in Roles
   THEN {[group_id |-> g, user_id |-> Me, role |-> srv.role[g]]} ELSE {})
  \cup
  (IF srv.other[g] \in Roles
   THEN {[group_id |-> g, user_id |-> Other, role |-> srv.other[g]]} ELSE {})

\* GET /groups/{id}/invitations
SrvInvitations(g) == {i \in srv.inv : i.group_id = g}

\* GET /groups/{id}/join-requests?pending_only=true
SrvJoinRequests(g) == {r \in srv.jr : r.group_id = g /\ r.status = "pending"}

\* GET /groups/my
SrvMyGroups ==
  LET gs == <<"g1", "g2">>
      f(i) == srv.role[gs[i]] \in Roles
      idx == SelectSeq(<<1, 2>>, f)
  IN [i \in 1..Len(idx) |-> [id |-> gs[idx[i]], role |-> srv.role[gs[idx[i]]]]]

\* GET /invitations/pending
SrvPendingInvitations ==
  LET ts == <<"t1", "t2">>
      f(i) == srv.mine[ts[i]].status = "pending"
      idx == SelectSeq(<<1, 2>>, f)
  IN [i \in 1..Len(idx) |->
        [token |-> ts[idx[i]], status |-> srv.mine[ts[idx[i]]].status,
         expires_at |-> srv.mine[ts[idx[i]]].expires_at]]

\* GET /invitations/{token}
SrvInvitationInfo(t) ==
  [token |-> t, expires_at |-> srv.mine[t].expires_at,
   is_valid |-> srv.mine[t].status = "pending"]

\* GET /groups: the groups the user can see
SrvAllGroups ==
  LET gs == <<"g1", "g2">>
      f(i) == srv.role[gs[i]] # "gone"
      idx == SelectSeq(<<1, 2>>, f)
  IN [i \in 1..Len(idx) |-> [id |-> gs[idx[i]], role |-> srv.role[gs[idx[i]]]]]

\* GET /join/{token}
SrvJoinInfo(t) == [expires_at |-> IF t = "j1" THEN 0 ELSE MaxTime + 1, is_valid |-> TRUE]

\* GET /groups/{id}/public
SrvPublicGroup(g) == [id |-> g, role |-> "none"]

\* whether the service accepts the mutating call a (a record of the bag acts)
SrvPermits(a) ==
  CASE a.kind \in {"updateRole", "removeMember"} ->
         CanManageRole(srv.role[a.gid]) /\ srv.other[a.gid] \in Roles
    [] a.kind = "revoke" ->
         /\ CanManageRole(srv.role[a.gid])
         /\ \E i \in srv.inv : i.id = a.target /\ i.group_id = a.gid /\ i.status = "pending"
    [] a.kind \in {"approve", "deny"} ->
         /\ CanManageRole(srv.role[a.gid])
         /\ \E r \in srv.jr : r.id = a.target /\ r.group_id = a.gid /\ r.status = "pending"
    [] a.kind = "invite" ->
         /\ CanManageRole(srv.role[a.gid])
         /\ ~ \E i \in srv.inv : i.id = "i2" /\ i.group_id = a.gid
    [] a.kind \in {"editGroup", "deleteGroup"} -> srv.role[a.gid] = "administrator"
    [] a.kind \in {"acceptDash", "acceptInbox", "acceptPage"} ->
         srv.mine[a.target].status = "pending"
    [] a.kind \in {"joinToken", "joinGroup"} ->
         srv.role["g2"] = "none" /\ ~ \E r \in srv.jr : r.id = "r3"
    [] OTHER -> FALSE

\* the state of the service after it has carried out the call a
SrvApply(a) ==
  CASE a.kind = "updateRole" -> [srv EXCEPT !.other[a.gid] = a.role]
    [] a.kind = "removeMember" -> [srv EXCEPT !.other[a.gid] = "absent"]
    [] a.kind = "revoke" ->
         [srv EXCEPT !.inv = { IF i.id = a.target /\ i.group_id = a.gid
                               THEN [i EXCEPT !.status = "revoked"] ELSE i : i \in srv.inv }]
    [] a.kind = "approve" ->
         [srv EXCEPT !.jr = { IF r.id = a.target /\ r.group_id = a.gid
                              THEN [r EXCEPT !.status = "approved"] ELSE r : r \in srv.jr }]
    [] a.kind = "deny" ->
         [srv EXCEPT !.jr = { IF r.id = a.target /\ r.group_id = a.gid
                              THEN [r EXCEPT !.status = "denied"] ELSE r : r \in srv.jr }]
    [] a.kind = "invite" ->
         [srv EXCEPT !.inv = @ \cup { [id |-> "i2", group_id |-> a.gid,
                                       status |-> "pending", expires_at |-> MaxTime + 1] }]
    [] a.kind = "deleteGroup" -> [srv EXCEPT !.role[a.gid] = "gone"]
    [] a.kind \in {"acceptDash", "acceptInbox", "acceptPage"} ->
         [srv EXCEPT !.mine[a.target].status = "accepted"]
    [] a.kind \in {"joinToken", "joinGroup"} ->
         [srv EXCEPT !.jr = @ \cup {[id |-> "r3", group_id |-> "g2", status |-> "pending"]}]
    [] OTHER -> srv

(***************************************************************************)
(* Suspended async functions                                               *)
(***************************************************************************)
NoSnap == [present |-> FALSE, group |-> {}, members |-> {}, invitations |-> {},
           requests |-> {}, myGroups |-> <<>>, myInvs |-> <<>>, info |-> {}]

\* a page load waiting at an await: comp is the component, gid the id or token
\* its closure holds, stage the request it waits for, role and held the locals
\* it keeps (userMembership.role, userGroups), snap the response once the
\* service has produced it, cause the join request whose approval started it
\* ("-" for every other load)
NewLoad(comp, gid, stage) ==
  [comp |-> comp, gid |-> gid, stage |-> stage, role |-> "none", held |-> <<>>,
   snap |-> NoSnap, cause |-> "-"]

\* a mutating handler waiting at its await: gid is the group id sent (group.id),
\* routeGid the groupId its closure's loadGroupData will use
NewAct(kind, gid, routeGid, target, role) ==
  [kind |-> kind, gid |-> gid, routeGid |-> routeGid, target |-> target, role |-> role]

Put(bag, x) == bag (+) SetToBag({x})

Take(bag, x) == bag (-) SetToBag({x})

\* the response to the request the load l waits for, read from the service now
Snapshot(l) ==
  CASE l.stage = "group"       -> [NoSnap EXCEPT !.present = TRUE, !.group = {SrvGroup(l.gid)}]
    [] l.stage = "members"     -> [NoSnap EXCEPT !.present = TRUE, !.members = SrvMembers(l.gid)]
    [] l.stage = "invitations" -> [NoSnap EXCEPT !.present = TRUE,
                                                 !.invitations = SrvInvitations(l.gid)]
    [] l.stage = "requests"    -> [NoSnap EXCEPT !.present = TRUE,
                                                 !.requests = SrvJoinRequests(l.gid)]
    [] l.stage = "myGroups"    -> [NoSnap EXCEPT !.present = TRUE, !.myGroups = SrvMyGroups]
    [] l.stage = "groups"      -> [NoSnap EXCEPT !.present = TRUE,
                                                 !.myGroups = IF l.gid = "my" THEN SrvMyGroups
                                                              ELSE SrvAllGroups]
    [] l.stage = "pending"     -> [NoSnap EXCEPT !.present = TRUE,
                                                 !.myInvs = SrvPendingInvitations]
    [] l.stage = "info"        -> [NoSnap EXCEPT !.present = TRUE,
                                                 !.info = {SrvInvitationInfo(l.gid)}]
    [] l.stage = "joinInfo"    -> [NoSnap EXCEPT !.present = TRUE,
                                                 !.info = {SrvJoinInfo(l.gid)}]
    [] l.stage = "publicGroup" -> [NoSnap EXCEPT !.present = TRUE,
                                                 !.group = {SrvPublicGroup(l.gid)}]

\* whether the service answers the read of l with 2xx
SrvServes(l) ==
  CASE l.stage \in {"group", "members"} -> srv.role[l.gid] # "gone"
    [] l.stage \in {"invitations", "requests"} -> CanManageRole(srv.role[l.gid])
    [] OTHER -> TRUE

\* the service answers a read; the response is on its way to the browser
LoadServe(l) ==
  /\ Alive
  /\ BagIn(l, loads)
  /\ ~l.snap.present
  /\ SrvServes(l)
  /\ loads' = Put(Take(loads, l), [l EXCEPT !.snap = Snapshot(l)])
  /\ UNCHANGED <<page, now, srv, gd, dash, inbox, acc, rtj, grp, acts>>
  /\ UNCHANGED <<httpVars, authVars>>
  /\ Silent /\ NoDialog /\ NoCall
  /\ UNCHANGED clicks
  /\ lastErr' = NoError
  /\ UNCHANGED refetched

\* the clock advances
Tick ==
  /\ Alive
  /\ now < MaxTime
  /\ now' = now + 1
  /\ UNCHANGED <<page, srv, gd, dash, inbox, acc, rtj, grp, loads, acts>>
  /\ UNCHANGED <<httpVars, authVars>>
  /\ Silent /\ NoDialog /\ NoCall
  /\ UNCHANGED clicks
  /\ lastErr' = NoError
  /\ UNCHANGED refetched

\* the effect of the axios interceptor of `api` on location.href
ApiRedirect(err) ==
  LET r == ResponseInterceptor(err, InterceptorAuthBase("api", env), href)
  IN IF r.redirect THEN r.location ELSE navTarget

ErrorTextFallbackOnly(err, fallback) == fallback

\* error.userMessage || fallback
ErrorText(err, fallback) ==
  JsOr(ResponseInterceptor(err, InterceptorAuthBase("api", env), href).userMessage, fallback)

(***************************************************************************)
(* GroupDetail (GroupDetail.tsx)                                           *)
(***************************************************************************)
\* the useState initial values (lines 44-51); groupId "none": not mounted
InitGDState ==
  [groupId |-> "none", group |-> {}, members |-> {}, invitations |-> {},
   joinRequests |-> {}, loading |-> TRUE, activeTab |-> "members",
   showInviteModal |-> FALSE, showEditModal |-> FALSE,
   inviteSubmitting |-> FALSE, editSubmitting |-> FALSE]

\* Dashboard.tsx lines 18-26
InitDashState ==
  [loading |-> TRUE, recentGroups |-> <<>>, pendingInvitations |-> <<>>,
   stats |-> [totalGroups |-> 0, memberGroups |-> 0, adminGroups |-> 0,
              pendingInvitations |-> 0]]

\* Invitations (RequestToJoin.tsx lines 281-282)
InitInboxState == [loading |-> TRUE, invitations |-> <<>>]

\* AcceptInvitation (EditGroupModal.tsx lines 201-204); token "none": not mounted
InitAccState ==
  [token |-> "none", invitationInfo |-> {}, loading |-> TRUE, accepting |-> FALSE,
   error |-> "null"]

\* Groups (Groups.tsx lines 16-19); the create-group modal is not part of the
\* model
InitGrpState == [groups |-> <<>>, loading |-> TRUE, filter |-> "all"]

\* RequestToJoin (RequestToJoin.tsx lines 23-30); via "none": not mounted, "token"
\* for /join/:token, "group" for /join-group/:groupId.  The text typed into
\* the message box is not part of the model.
InitRtjState ==
  [via |-> "none", id |-> "none", joinInfo |-> {}, loading |-> TRUE, submitting |-> FALSE,
   error |-> "null"]

\* group?.membership?.role
GroupRole == IF gd.group = {} THEN "none" ELSE (CHOOSE g \in gd.group : TRUE).role

GroupId == IF gd.group = {} THEN "none" ELSE (CHOOSE g \in gd.group : TRUE).id

canManageGroup == GroupRole = "administrator" \/ GroupRole = "manager"

canAdminGroup == GroupRole = "administrator"

\* the component returns the page body (not the spinner, not "Group not found")
GDRendered == page = "GroupDetail" /\ ~gd.loading /\ gd.group # {}

\* --- what the page body shows (JSX lines 241-672) ---
ShowsInviteButton == GDRendered /\ canManageGroup

ShowsManagementMenu == GDRendered /\ canManageGroup

ShowsEditGroup == GDRendered /\ canManageGroup /\ canAdminGroup

ShowsDeleteGroup == GDRendered /\ canManageGroup /\ canAdminGroup

ShowsInvitationsTab == GDRendered /\ canManageGroup

ShowsRequestsTab == GDRendered /\ canManageGroup

\* the invitation rows listed under the invitations tab
ShownInvitations == IF GDRendered /\ gd.activeTab = "invitations" THEN gd.invitations ELSE {}

\* the join-request rows listed under the requests tab
ShownRequests == IF GDRendered /\ gd.activeTab = "requests" THEN gd.joinRequests ELSE {}

\* the member rows listed under the members tab
ShownMembers == IF GDRendered /\ gd.activeTab = "members" THEN gd.members ELSE {}

\* the status badge of an invitation row: {invitation.status}
GDInvitationBadge(i) == i.status

ShowsRevoke(i) == i \in ShownInvitations /\ i.status = "pending"

ShowsApprove(r, role) ==
  /\ r \in ShownRequests
  /\ r.status = "pending"
  /\ (role = "administrator" => canAdminGroup)

ShowsDeny(r) == r \in ShownRequests /\ r.status = "pending"

\* the per-member menu and its items
ShowsMemberMenu(m) == m \in ShownMembers /\ canManageGroup /\ m.user_id # Me

ShowsMakeRole(m, role) ==
  /\ ShowsMemberMenu(m)
  /\ m.role # role
  /\ (role = "administrator" => canAdminGroup)

\* an open modal (a headlessui Dialog) covers the page: nothing behind it can
\* be clicked
NoModal == ~gd.showInviteModal /\ ~gd.showEditModal

\* loadGroupData up to its first await: setLoading(true); getGroup(groupId).
\* The spinner replaces the page body, which unmounts the two modal forms.
StartLoadGD(state) ==
  [state EXCEPT !.loading = TRUE, !.inviteSubmitting = FALSE, !.editSubmitting = FALSE]

GDOthersUnchanged == UNCHANGED <<dash, inbox, acc, rtj, grp, httpVars, authVars>>

\* the route element is mounted for /detail/:groupId; useEffect runs the load
GDMount(g) ==
  /\ Alive
  /\ page # "GroupDetail"
  /\ user # {}
  /\ page' = "GroupDetail"
  /\ href' = PageHref("GroupDetail", g)
  /\ gd' = [InitGDState EXCEPT !.groupId = g]
  /\ loads' = SetToBag({NewLoad("gd", g, "group")})
  /\ acts' = EmptyBag
  /\ dash' = InitDashState /\ inbox' = InitInboxState /\ acc' = InitAccState /\ rtj' = InitRtjState
  /\ grp' = InitGrpState
  /\ UNCHANGED <<now, srv, authVars>>
  /\ UNCHANGED <<env, navTarget, httpPending, authToken, httpSent, httpLast>>
  /\ Silent /\ NoDialog /\ NoCall
  /\ Gesture
  /\ lastErr' = NoError
  /\ refetched' = {}

\* faulty variant of GDRouteChange: the effect aborts the loads still in flight
GDRouteChangeCancels(g) ==
  /\ Alive
  /\ page = "GroupDetail"
  /\ g # gd.groupId
  /\ InFlight < MaxInFlight
  /\ gd' = StartLoadGD([gd EXCEPT !.groupId = g])
  /\ loads' = SetToBag({NewLoad("gd", g, "group")})
  /\ href' = PageHref("GroupDetail", g)
  /\ UNCHANGED <<page, now, srv, acts, dash, inbox, acc, rtj, grp, authVars>>
  /\ UNCHANGED <<env, navTarget, httpPending, authToken, httpSent, httpLast>>
  /\ Silent /\ NoDialog /\ NoCall
  /\ Gesture
  /\ lastErr' = NoError
  /\ UNCHANGED refetched

\* the groupId parameter changes while the component stays mounted
GDRouteChange(g) ==
  /\ Alive
  /\ page = "GroupDetail"
  /\ g # gd.groupId
  /\ InFlight < MaxInFlight
  /\ gd' = StartLoadGD([gd EXCEPT !.groupId = g])
  /\ loads' = Put(loads, NewLoad("gd", g, "group"))
  /\ href' = PageHref("GroupDetail", g)
  /\ UNCHANGED <<page, now, srv, acts, dash, inbox, acc, rtj, grp, authVars>>
  /\ UNCHANGED <<env, navTarget, httpPending, authToken, httpSent, httpLast>>
  /\ Silent /\ NoDialog /\ NoCall
  /\ Gesture
  /\ lastErr' = NoError
  /\ UNCHANGED refetched

\* a response of loadGroupData arrives: the setter runs and the next request
\* is sent, or the function ends through finally { setLoading(false) }
LoadsManagerListsAlways(role) == TRUE

\* userMembership && (userMembership.role === 'administrator' ||
\* userMembership.role === 'manager'); role "none": no membership
LoadsManagerLists(role) == role \in {"administrator", "manager"}

GDLoadDeliver(l) ==
  /\ Alive
  /\ page = "GroupDetail"
  /\ BagIn(l, loads) /\ l.comp = "gd" /\ l.snap.present
  /\ LET next(stage, role) == [l EXCEPT !.stage = stage, !.role = role, !.snap = NoSnap]
         rest == Take(loads, l)
     IN CASE l.stage = "group" ->
               /\ gd' = [gd EXCEPT !.group = l.snap.group]
               /\ loads' = Put(rest, next("members", (CHOOSE g \in l.snap.group : TRUE).role))
          [] l.stage = "members" ->
               IF LoadsManagerLists(l.role)
               THEN /\ gd' = [gd EXCEPT !.members = l.snap.members]
                    /\ loads' = Put(rest, next("invitations", l.role))
               ELSE /\ gd' = [gd EXCEPT !.members = l.snap.members, !.loading = FALSE]
                    /\ loads' = rest
          [] l.stage = "invitations" ->
               /\ gd' = [gd EXCEPT !.invitations = l.snap.invitations]
               /\ loads' = Put(rest, next("requests", l.role))
          [] l.stage = "requests" ->
               /\ gd' = [gd EXCEPT !.joinRequests = l.snap.requests, !.loading = FALSE]
               /\ loads' = rest
  /\ refetched' = IF l.cause # "-" /\ BagCardinality(loads') < BagCardinality(loads)
                  THEN refetched \cup {l.cause} ELSE refetched
  /\ UNCHANGED <<page, now, srv, acts>>
  /\ GDOthersUnchanged
  /\ Silent /\ NoDialog /\ NoCall
  /\ UNCHANGED clicks
  /\ lastErr' = NoError

\* faulty variant of GDLoadFail: a failed read is reported and the load goes on
\* with the reads that come after it
GDLoadFailGoesOn(l, err) ==
  /\ Alive
  /\ page = "GroupDetail"
  /\ BagIn(l, loads) /\ l.comp = "gd" /\ ~l.snap.present
  /\ navTarget' = ApiRedirect(err)
  /\ toast' = Toast("error", ErrorText(err, "Failed to load group data"))
  /\ IF l.stage = "requests"
     THEN gd' = [gd EXCEPT !.loading = FALSE] /\ loads' = Take(loads, l)
     ELSE /\ gd' = gd
          /\ loads' = Put(Take(loads, l),
                          [l EXCEPT !.stage = CASE l.stage = "group" -> "members"
                                                [] l.stage = "members" -> "invitations"
                                                [] OTHER -> "requests"])
  /\ UNCHANGED <<page, acts, href, now, srv, dash, inbox, acc, rtj, grp, authVars>>
  /\ UNCHANGED <<env, httpPending, authToken, httpSent, httpLast>>
  /\ NoDialog /\ NoCall
  /\ UNCHANGED clicks
  /\ lastErr' = err
  /\ UNCHANGED refetched

\* a request of loadGroupData fails: the catch branch, then finally
GDLoadFail(l, err) ==
  /\ Alive
  /\ page = "GroupDetail"
  /\ BagIn(l, loads) /\ l.comp = "gd" /\ ~l.snap.present
  /\ navTarget' = ApiRedirect(err)
  /\ IF StatusIs(err, 403) \/ StatusIs(err, 404)
     THEN \* toast.error(...); navigate('/detail'): the component is unmounted
          /\ toast' = Toast("error", IF StatusIs(err, 403)
                                     THEN "You do not have permission to view this group"
                                     ELSE "Group not found")
          /\ page' = "Groups"
          /\ href' = PageHref("Groups", "-")
          /\ gd' = InitGDState
          /\ grp' = InitGrpState
          /\ loads' = SetToBag({NewLoad("grp", "all", "groups")})
          /\ acts' = EmptyBag
     ELSE /\ toast' = Toast("error", ErrorText(err, "Failed to load group data"))
          /\ gd' = [gd EXCEPT !.loading = FALSE]
          /\ loads' = Take(loads, l)
          /\ UNCHANGED <<page, acts, href, grp>>
  /\ UNCHANGED <<now, srv, dash, inbox, acc, rtj, authVars>>
  /\ UNCHANGED <<env, httpPending, authToken, httpSent, httpLast>>
  /\ NoDialog /\ NoCall
  /\ UNCHANGED clicks
  /\ lastErr' = err
  /\ UNCHANGED refetched

\* a tab button is clicked
GDSetTab(t) ==
  /\ Alive
  /\ NoModal
  /\ GDRendered
  /\ \/ t = "members"
     \/ t = "invitations" /\ ShowsInvitationsTab
     \/ t = "requests" /\ ShowsRequestsTab
  /\ gd.activeTab # t
  /\ gd' = [gd EXCEPT !.activeTab = t]
  /\ UNCHANGED <<page, now, srv, loads, acts>>
  /\ GDOthersUnchanged
  /\ Silent /\ NoDialog /\ NoCall
  /\ Gesture
  /\ lastErr' = NoError
  /\ UNCHANGED refetched

\* the Invite Member / Edit Group buttons and the modals' close buttons
GDOpenInvite ==
  /\ Alive
  /\ NoModal
  /\ ShowsInviteButton /\ ~gd.showInviteModal
  /\ gd' = [gd EXCEPT !.showInviteModal = TRUE]
  /\ UNCHANGED <<page, now, srv, loads, acts>>
  /\ GDOthersUnchanged
  /\ Silent /\ NoDialog /\ NoCall
  /\ Gesture
  /\ lastErr' = NoError
  /\ UNCHANGED refetched

GDOpenEdit ==
  /\ Alive
  /\ NoModal
  /\ ShowsEditGroup /\ ~gd.showEditModal
  /\ gd' = [gd EXCEPT !.showEditModal = TRUE]
  /\ UNCHANGED <<page, now, srv, loads, acts>>
  /\ GDOthersUnchanged
  /\ Silent /\ NoDialog /\ NoCall
  /\ Gesture
  /\ lastErr' = NoError
  /\ UNCHANGED refetched

GDCloseModal(which) ==
  /\ Alive
  /\ GDRendered
  /\ \/ which = "invite" /\ gd.showInviteModal /\ gd' = [gd EXCEPT !.showInviteModal = FALSE]
     \/ which = "edit" /\ gd.showEditModal /\ gd' = [gd EXCEPT !.showEditModal = FALSE]
  /\ UNCHANGED <<page, now, srv, loads, acts>>
  /\ GDOthersUnchanged
  /\ Silent /\ NoDialog /\ NoCall
  /\ Gesture
  /\ lastErr' = NoError
  /\ UNCHANGED refetched

\* toast texts of the mutating handlers
SuccessText(kind) ==
  CASE kind = "updateRole"   -> "Member role updated successfully"
    [] kind = "removeMember" -> "Member removed successfully"
    [] kind = "revoke"       -> "Invitation revoked successfully"
    [] kind = "approve"      -> "Join request approved successfully"
    [] kind = "deny"         -> "Join request denied successfully"
    [] kind = "deleteGroup"  -> "Group deleted successfully"
    [] kind = "invite"       -> "Invitation sent successfully!"
    [] kind = "editGroup"    -> "Group updated successfully!"
    [] kind \in {"joinToken", "joinGroup"} -> "Join request submitted successfully!"
    [] OTHER                 -> "Invitation accepted successfully!"

FailureText(kind) ==
  CASE kind = "updateRole"   -> "Failed to update member role"
    [] kind = "removeMember" -> "Failed to remove member"
    [] kind = "revoke"       -> "Failed to revoke invitation"
    [] kind = "approve"      -> "Failed to approve join request"
    [] kind = "deny"         -> "Failed to deny join request"
    [] kind = "deleteGroup"  -> "Failed to delete group"
    [] kind = "invite"       -> "Failed to send invitation"
    [] kind = "editGroup"    -> "Failed to update group"
    [] kind \in {"joinToken", "joinGroup"} -> "Failed to submit join request"
    [] OTHER                 -> "Failed to accept invitation"

\* faulty variant of ConfirmThenCall: the call is sent whatever the answer
CallWhateverAnswer(kind, target, answer) ==
  /\ lastConfirm' = [op |-> kind, answer |-> answer]
  /\ InFlight < MaxInFlight
  /\ acts' = Put(acts, NewAct(kind, GroupId, gd.groupId, target, "-"))
  /\ UNCHANGED <<page, now, srv, gd, loads>>
  /\ GDOthersUnchanged
  /\ Silent /\ NoCall
  /\ Gesture
  /\ lastErr' = NoError
  /\ UNCHANGED refetched

\* if (!group || !window.confirm(...)) return; try { await api call ...
\* answer is what the user clicks in the confirm dialog
ConfirmThenCall(kind, target, answer) ==
  /\ lastConfirm' = [op |-> kind, answer |-> answer]
  /\ IF answer
     THEN /\ InFlight < MaxInFlight
          /\ acts' = Put(acts, NewAct(kind, GroupId, gd.groupId, target, "-"))
     ELSE acts' = acts
  /\ UNCHANGED <<page, now, srv, gd, loads>>
  /\ GDOthersUnchanged
  /\ Silent /\ NoCall
  /\ Gesture
  /\ lastErr' = NoError
  /\ UNCHANGED refetched

\* Delete Group menu item
handleDeleteGroup(answer) ==
  /\ Alive
  /\ NoModal
  /\ ShowsDeleteGroup
  /\ ConfirmThenCall("deleteGroup", GroupId, answer)

\* Remove from Group menu item of member m
handleRemoveMember(m, answer) ==
  /\ Alive
  /\ NoModal
  /\ ShowsMemberMenu(m)
  /\ ConfirmThenCall("removeMember", m.user_id, answer)

\* Revoke button of invitation i
handleRevokeInvitation(i, answer) ==
  /\ Alive
  /\ NoModal
  /\ ShowsRevoke(i)
  /\ ConfirmThenCall("revoke", i.id, answer)

\* Deny button of join request r
handleDenyJoinRequest(r, answer) ==
  /\ Alive
  /\ NoModal
  /\ ShowsDeny(r)
  /\ ConfirmThenCall("deny", r.id, answer)

\* Make Administrator / Make Manager / Make Member of member m
handleUpdateRole(m, newRole) ==
  /\ Alive
  /\ NoModal
  /\ ShowsMakeRole(m, newRole)
  /\ InFlight < MaxInFlight
  /\ acts' = Put(acts, NewAct("updateRole", GroupId, gd.groupId, m.user_id, newRole))
  /\ UNCHANGED <<page, now, srv, gd, loads>>
  /\ GDOthersUnchanged
  /\ Silent /\ NoDialog /\ NoCall
  /\ Gesture
  /\ lastErr' = NoError
  /\ UNCHANGED refetched

\* Approve as Member / Manager / Administrator of join request r
handleApproveJoinRequest(r, role) ==
  /\ Alive
  /\ NoModal
  /\ ShowsApprove(r, role)
  /\ InFlight < MaxInFlight
  /\ acts' = Put(acts, NewAct("approve", GroupId, gd.groupId, r.id, role))
  /\ UNCHANGED <<page, now, srv, gd, loads>>
  /\ GDOthersUnchanged
  /\ Silent /\ NoDialog /\ NoCall
  /\ Gesture
  /\ lastErr' = NoError
  /\ UNCHANGED refetched

\* InviteMemberModal: the form is submitted (groupId prop is group.id)
InviteSubmit(role) ==
  /\ Alive
  /\ GDRendered /\ gd.showInviteModal /\ ~gd.inviteSubmitting
  /\ InFlight < MaxInFlight
  /\ acts' = Put(acts, NewAct("invite", GroupId, gd.groupId, "form", role))
  /\ gd' = [gd EXCEPT !.inviteSubmitting = TRUE]
  /\ UNCHANGED <<page, now, srv, loads>>
  /\ GDOthersUnchanged
  /\ Silent /\ NoDialog /\ NoCall
  /\ Gesture
  /\ lastErr' = NoError
  /\ UNCHANGED refetched

\* EditGroupModal: the form is submitted (the stored name, description and
\* visibility of a group are not part of the model)
EditSubmit ==
  /\ Alive
  /\ GDRendered /\ gd.showEditModal /\ ~gd.editSubmitting
  /\ InFlight < MaxInFlight
  /\ acts' = Put(acts, NewAct("editGroup", GroupId, gd.groupId, "form", "-"))
  /\ gd' = [gd EXCEPT !.editSubmitting = TRUE]
  /\ UNCHANGED <<page, now, srv, loads>>
  /\ GDOthersUnchanged
  /\ Silent /\ NoDialog /\ NoCall
  /\ Gesture
  /\ lastErr' = NoError
  /\ UNCHANGED refetched

Settled(a, ok) == [kind |-> a.kind, ok |-> ok]

\* the call of a GroupDetail handler succeeds: toast.success(...); loadGroupData()
\* (the closure's loadGroupData reads the groupId of the render it was made in)
GDHandlerOk(a) ==
  /\ Alive
  /\ page = "GroupDetail"
  /\ BagIn(a, acts)
  /\ a.kind \in {"updateRole", "removeMember", "revoke", "approve", "deny"}
  /\ SrvPermits(a)
  /\ srv' = SrvApply(a)
  /\ acts' = Take(acts, a)
  /\ toast' = Toast("success", SuccessText(a.kind))
  /\ gd' = StartLoadGD(gd)
  /\ loads' = Put(loads, [NewLoad("gd", a.routeGid, "group") EXCEPT
                            !.cause = IF a.kind = "approve" THEN a.target ELSE "-"])
  /\ lastAct' = Settled(a, TRUE)
  /\ UNCHANGED <<page, now>>
  /\ GDOthersUnchanged
  /\ NoDialog
  /\ UNCHANGED clicks
  /\ lastErr' = NoError
  /\ UNCHANGED refetched

\* the call of a modal succeeds: reset(); toast.success(...); onSuccess(), which
\* closes the modal and calls loadGroupData()
GDModalOk(a) ==
  /\ Alive
  /\ page = "GroupDetail"
  /\ BagIn(a, acts)
  /\ a.kind \in {"invite", "editGroup"}
  /\ SrvPermits(a)
  /\ srv' = SrvApply(a)
  /\ acts' = Take(acts, a)
  /\ toast' = Toast("success", SuccessText(a.kind))
  /\ gd' = StartLoadGD(IF a.kind = "invite"
                       THEN [gd EXCEPT !.showInviteModal = FALSE]
                       ELSE [gd EXCEPT !.showEditModal = FALSE])
  /\ loads' = Put(loads, NewLoad("gd", a.routeGid, "group"))
  /\ lastAct' = Settled(a, TRUE)
  /\ UNCHANGED <<page, now>>
  /\ GDOthersUnchanged
  /\ NoDialog
  /\ UNCHANGED clicks
  /\ lastErr' = NoError
  /\ UNCHANGED refetched

\* deleteGroup succeeds: toast.success(...); navigate('/detail')
GDDeleteOk(a) ==
  /\ Alive
  /\ page = "GroupDetail"
  /\ BagIn(a, acts)
  /\ a.kind = "deleteGroup"
  /\ SrvPermits(a)
  /\ srv' = SrvApply(a)
  /\ toast' = Toast("success", SuccessText(a.kind))
  /\ page' = "Groups"
  /\ href' = PageHref("Groups", "-")
  /\ gd' = InitGDState
  /\ grp' = InitGrpState
  /\ loads' = SetToBag({NewLoad("grp", "all", "groups")})
  /\ acts' = EmptyBag
  /\ lastAct' = Settled(a, TRUE)
  /\ UNCHANGED <<now, dash, inbox, acc, rtj, authVars>>
  /\ UNCHANGED <<env, navTarget, httpPending, authToken, httpSent, httpLast>>
  /\ NoDialog
  /\ UNCHANGED clicks
  /\ lastErr' = NoError
  /\ UNCHANGED refetched

\* faulty variant of GDActFail: the handler sends the failed call again
GDActFailRetries(a, err) ==
  /\ Alive
  /\ page = "GroupDetail"
  /\ BagIn(a, acts)
  /\ navTarget' = ApiRedirect(err)
  /\ toast' = Toast("error", ErrorText(err, FailureText(a.kind)))
  /\ acts' = acts
  /\ lastAct' = Settled(a, FALSE)
  /\ UNCHANGED <<page, now, srv, gd, loads, dash, inbox, acc, rtj, grp, authVars>>
  /\ UNCHANGED <<env, href, httpPending, authToken, httpSent, httpLast>>
  /\ NoDialog
  /\ UNCHANGED clicks
  /\ lastErr' = err
  /\ UNCHANGED refetched

\* the call fails: the interceptor runs, then the catch branch of the handler
GDActFail(a, err) ==
  /\ Alive
  /\ page = "GroupDetail"
  /\ BagIn(a, acts)
  /\ a.kind \in {"updateRole", "removeMember", "revoke", "approve", "deny",
                 "deleteGroup", "invite", "editGroup"}
  /\ navTarget' = ApiRedirect(err)
  /\ toast' = Toast("error", ErrorText(err, FailureText(a.kind)))
  /\ acts' = Take(acts, a)
  /\ gd' = CASE a.kind = "invite"    -> [gd EXCEPT !.inviteSubmitting = FALSE]
             [] a.kind = "editGroup" -> [gd EXCEPT !.editSubmitting = FALSE]
             [] OTHER                -> gd
  /\ lastAct' = Settled(a, FALSE)
  /\ UNCHANGED <<page, now, srv, loads, dash, inbox, acc, rtj, grp, authVars>>
  /\ UNCHANGED <<env, href, httpPending, authToken, httpSent, httpLast>>
  /\ NoDialog
  /\ UNCHANGED clicks
  /\ lastErr' = err
  /\ UNCHANGED refetched

(***************************************************************************)
(* Dashboard (Dashboard.tsx)                                               *)
(***************************************************************************)
DashRendered == page = "Dashboard" /\ ~dash.loading

\* the invitation cards of the Pending Invitations panel
DashShownInvitations ==
  IF DashRendered
  THEN {dash.pendingInvitations[i] : i \in 1..Len(dash.pendingInvitations)}
  ELSE {}

\* every card carries an Accept button (lines 267-272)
DashShowsAccept(inv) == inv \in DashShownInvitations

\* the route element is mounted; useEffect runs loadDashboardData
DashMount ==
  /\ Alive
  /\ page # "Dashboard"
  /\ user # {}
  /\ page' = "Dashboard"
  /\ href' = PageHref("Dashboard", "-")
  /\ dash' = InitDashState
  /\ gd' = InitGDState /\ inbox' = InitInboxState /\ acc' = InitAccState /\ rtj' = InitRtjState
  /\ grp' = InitGrpState
  /\ loads' = SetToBag({NewLoad("dash", "-", "myGroups")})
  /\ acts' = EmptyBag
  /\ UNCHANGED <<now, srv, authVars>>
  /\ UNCHANGED <<env, navTarget, httpPending, authToken, httpSent, httpLast>>
  /\ Silent /\ NoDialog /\ NoCall
  /\ Gesture
  /\ lastErr' = NoError
  /\ refetched' = {}

\* faulty variant of DashLoadDeliver: the groups are shown as soon as the first
\* read is answered
DashLoadDeliverEarly(l) ==
  /\ Alive
  /\ page = "Dashboard"
  /\ BagIn(l, loads) /\ l.comp = "dash" /\ l.snap.present
  /\ IF l.stage = "myGroups"
     THEN /\ loads' = Put(Take(loads, l),
                          [l EXCEPT !.stage = "pending", !.held = l.snap.myGroups,
                                    !.snap = NoSnap])
          /\ dash' = [dash EXCEPT !.recentGroups = Slice(l.snap.myGroups, 5)]
     ELSE LET userGroups == l.held
              invitations == l.snap.myInvs
          IN /\ dash' = [loading |-> FALSE,
                         recentGroups |-> Slice(userGroups, 5),
                         pendingInvitations |-> Slice(invitations, 3),
                         stats |-> [totalGroups |-> Len(userGroups),
                                    memberGroups |-> CountRole(userGroups, "member"),
                                    adminGroups |-> CountRole(userGroups, "administrator"),
                                    pendingInvitations |-> Len(invitations)]]
             /\ loads' = Take(loads, l)
  /\ UNCHANGED <<page, now, srv, gd, inbox, acc, rtj, grp, acts>>
  /\ UNCHANGED <<httpVars, authVars>>
  /\ Silent /\ NoDialog /\ NoCall
  /\ UNCHANGED clicks
  /\ lastErr' = NoError
  /\ UNCHANGED refetched

\* a response of loadDashboardData arrives
DashLoadDeliver(l) ==
  /\ Alive
  /\ page = "Dashboard"
  /\ BagIn(l, loads) /\ l.comp = "dash" /\ l.snap.present
  /\ IF l.stage = "myGroups"
     THEN /\ loads' = Put(Take(loads, l),
                          [l EXCEPT !.stage = "pending", !.held = l.snap.myGroups,
                                    !.snap = NoSnap])
          /\ UNCHANGED dash
     ELSE LET userGroups == l.held
              invitations == l.snap.myInvs
          IN /\ dash' = [loading |-> FALSE,
                         recentGroups |-> Slice(userGroups, 5),
                         pendingInvitations |-> Slice(invitations, 3),
                         stats |-> [totalGroups |-> Len(userGroups),
                                    memberGroups |-> CountRole(userGroups, "member"),
                                    adminGroups |-> CountRole(userGroups, "administrator"),
                                    pendingInvitations |-> Len(invitations)]]
             /\ loads' = Take(loads, l)
  /\ UNCHANGED <<page, now, srv, gd, inbox, acc, rtj, grp, acts>>
  /\ UNCHANGED <<httpVars, authVars>>
  /\ Silent /\ NoDialog /\ NoCall
  /\ UNCHANGED clicks
  /\ lastErr' = NoError
  /\ UNCHANGED refetched

\* a request of loadDashboardData fails
DashLoadFailKeepsLoading(l, err) ==
  /\ Alive
  /\ page = "Dashboard"
  /\ BagIn(l, loads) /\ l.comp = "dash" /\ ~l.snap.present
  /\ navTarget' = ApiRedirect(err)
  /\ toast' = Toast("error", ErrorText(err, "Failed to load dashboard data"))
  /\ loads' = Take(loads, l)
  /\ UNCHANGED <<page, now, srv, gd, dash, inbox, acc, rtj, grp, acts, authVars>>
  /\ UNCHANGED <<env, href, httpPending, authToken, httpSent, httpLast>>
  /\ NoDialog /\ NoCall
  /\ UNCHANGED clicks
  /\ lastErr' = err
  /\ UNCHANGED refetched

\* a read of the dashboard load fails: toast.error(...); finally setLoading(false)
DashLoadFail(l, err) ==
  /\ Alive
  /\ page = "Dashboard"
  /\ BagIn(l, loads) /\ l.comp = "dash" /\ ~l.snap.present
  /\ navTarget' = ApiRedirect(err)
  /\ toast' = Toast("error", ErrorText(err, "Failed to load dashboard data"))
  /\ dash' = [dash EXCEPT !.loading = FALSE]
  /\ loads' = Take(loads, l)
  /\ UNCHANGED <<page, now, srv, gd, inbox, acc, rtj, grp, acts, authVars>>
  /\ UNCHANGED <<env, href, httpPending, authToken, httpSent, httpLast>>
  /\ NoDialog /\ NoCall
  /\ UNCHANGED clicks
  /\ lastErr' = err
  /\ UNCHANGED refetched

\* the Accept button of a card: acceptInvitation(invitation.token)
DashAccept(inv) ==
  /\ Alive
  /\ DashShowsAccept(inv)
  /\ InFlight < MaxInFlight
  /\ acts' = Put(acts, NewAct("acceptDash", "-", "-", inv.token, "-"))
  /\ UNCHANGED <<page, now, srv, gd, dash, inbox, acc, rtj, grp, loads>>
  /\ UNCHANGED <<httpVars, authVars>>
  /\ Silent /\ NoDialog /\ NoCall
  /\ Gesture
  /\ lastErr' = NoError
  /\ UNCHANGED refetched

\* accept succeeds: toast.success(...); loadDashboardData()
DashAcceptOk(a) ==
  /\ Alive
  /\ page = "Dashboard"
  /\ BagIn(a, acts) /\ a.kind = "acceptDash"
  /\ SrvPermits(a)
  /\ srv' = SrvApply(a)
  /\ acts' = Take(acts, a)
  /\ toast' = Toast("success", SuccessText(a.kind))
  /\ dash' = [dash EXCEPT !.loading = TRUE]
  /\ loads' = Put(loads, NewLoad("dash", "-", "myGroups"))
  /\ lastAct' = Settled(a, TRUE)
  /\ UNCHANGED <<page, now, gd, inbox, acc, rtj, grp>>
  /\ UNCHANGED <<httpVars, authVars>>
  /\ NoDialog
  /\ UNCHANGED clicks
  /\ lastErr' = NoError
  /\ UNCHANGED refetched

(***************************************************************************)
(* Invitations inbox (RequestToJoin.tsx, second component)                 *)
(***************************************************************************)
InboxRendered == page = "Invitations" /\ ~inbox.loading

InboxShownInvitations ==
  IF InboxRendered
  THEN {inbox.invitations[i] : i \in 1..Len(inbox.invitations)}
  ELSE {}

getStatusText(status) ==
  CASE status = "pending"  -> "Pending"
    [] status = "accepted" -> "Accepted"
    [] status = "expired"  -> "Expired"
    [] status = "revoked"  -> "Revoked"
    [] OTHER               -> status

\* const canAccept = invitation.status === 'pending' && !isExpired
canAccept(inv) == inv.status = "pending" /\ ~isInvitationExpired(inv.expires_at)

\* the text of the status badge of a row (line 432)
InboxBadge(inv) ==
  IF isInvitationExpired(inv.expires_at) /\ inv.status = "pending"
  THEN "Expired"
  ELSE getStatusText(inv.status)

InboxShowsAccept(inv) == inv \in InboxShownInvitations /\ canAccept(inv)

InboxMount ==
  /\ Alive
  /\ page # "Invitations"
  /\ user # {}
  /\ page' = "Invitations"
  /\ href' = PageHref("Invitations", "-")
  /\ inbox' = InitInboxState
  /\ gd' = InitGDState /\ dash' = InitDashState /\ acc' = InitAccState /\ rtj' = InitRtjState
  /\ grp' = InitGrpState
  /\ loads' = SetToBag({NewLoad("inbox", "-", "pending")})
  /\ acts' = EmptyBag
  /\ UNCHANGED <<now, srv, authVars>>
  /\ UNCHANGED <<env, navTarget, httpPending, authToken, httpSent, httpLast>>
  /\ Silent /\ NoDialog /\ NoCall
  /\ Gesture
  /\ lastErr' = NoError
  /\ refetched' = {}

InboxLoadDeliver(l) ==
  /\ Alive
  /\ page = "Invitations"
  /\ BagIn(l, loads) /\ l.comp = "inbox" /\ l.snap.present
  /\ inbox' = [loading |-> FALSE, invitations |-> l.snap.myInvs]
  /\ loads' = Take(loads, l)
  /\ UNCHANGED <<page, now, srv, gd, dash, acc, rtj, grp, acts>>
  /\ UNCHANGED <<httpVars, authVars>>
  /\ Silent /\ NoDialog /\ NoCall
  /\ UNCHANGED clicks
  /\ lastErr' = NoError
  /\ UNCHANGED refetched

InboxLoadFail(l, err) ==
  /\ Alive
  /\ page = "Invitations"
  /\ BagIn(l, loads) /\ l.comp = "inbox" /\ ~l.snap.present
  /\ navTarget' = ApiRedirect(err)
  /\ toast' = Toast("error", ErrorText(err, "Failed to load invitations"))
  /\ inbox' = [inbox EXCEPT !.loading = FALSE]
  /\ loads' = Take(loads, l)
  /\ UNCHANGED <<page, now, srv, gd, dash, acc, rtj, grp, acts, authVars>>
  /\ UNCHANGED <<env, href, httpPending, authToken, httpSent, httpLast>>
  /\ NoDialog /\ NoCall
  /\ UNCHANGED clicks
  /\ lastErr' = err
  /\ UNCHANGED refetched

InboxAccept(inv) ==
  /\ Alive
  /\ InboxShowsAccept(inv)
  /\ InFlight < MaxInFlight
  /\ acts' = Put(acts, NewAct("acceptInbox", "-", "-", inv.token, "-"))
  /\ UNCHANGED <<page, now, srv, gd, dash, inbox, acc, rtj, grp, loads>>
  /\ UNCHANGED <<httpVars, authVars>>
  /\ Silent /\ NoDialog /\ NoCall
  /\ Gesture
  /\ lastErr' = NoError
  /\ UNCHANGED refetched

\* accept succeeds: toast.success(...); loadInvitations()
InboxAcceptOk(a) ==
  /\ Alive
  /\ page = "Invitations"
  /\ BagIn(a, acts) /\ a.kind = "acceptInbox"
  /\ SrvPermits(a)
  /\ srv' = SrvApply(a)
  /\ acts' = Take(acts, a)
  /\ toast' = Toast("success", SuccessText(a.kind))
  /\ inbox' = [inbox EXCEPT !.loading = TRUE]
  /\ loads' = Put(loads, NewLoad("inbox", "-", "pending"))
  /\ lastAct' = Settled(a, TRUE)
  /\ UNCHANGED <<page, now, gd, dash, acc, rtj, grp>>
  /\ UNCHANGED <<httpVars, authVars>>
  /\ NoDialog
  /\ UNCHANGED clicks
  /\ lastErr' = NoError
  /\ UNCHANGED refetched

\* acceptInvitation of the Dashboard or of the inbox fails: catch branch
ListAcceptFail(a, err) ==
  /\ Alive
  /\ BagIn(a, acts)
  /\ \/ page = "Dashboard" /\ a.kind = "acceptDash"
     \/ page = "Invitations" /\ a.kind = "acceptInbox"
  /\ navTarget' = ApiRedirect(err)
  /\ toast' = Toast("error", ErrorText(err, FailureText(a.kind)))
  /\ acts' = Take(acts, a)
  /\ lastAct' = Settled(a, FALSE)
  /\ UNCHANGED <<page, now, srv, gd, dash, inbox, acc, rtj, grp, loads, authVars>>
  /\ UNCHANGED <<env, href, httpPending, authToken, httpSent, httpLast>>
  /\ NoDialog
  /\ UNCHANGED clicks
  /\ lastErr' = err
  /\ UNCHANGED refetched

(***************************************************************************)
(* AcceptInvitation (EditGroupModal.tsx, second component)                 *)
(***************************************************************************)
AccInfo == CHOOSE i \in acc.invitationInfo : TRUE

\* const isExpired = invitationInfo && new Date(invitationInfo.expires_at) < new Date()
AccIsExpired == acc.invitationInfo # {} /\ isInvitationExpired(AccInfo.expires_at)

\* which of the render branches (lines 267-402) the component returns
AccScreenUserFirst ==
  IF page # "AcceptInvitation" THEN "none"
  ELSE IF acc.loading THEN "spinner"
  ELSE IF acc.error # "null" \/ acc.invitationInfo = {} THEN "error"
  ELSE IF user = {} THEN "signin"
  ELSE IF AccIsExpired THEN "expired"
  ELSE IF ~AccInfo.is_valid THEN "invalid"
  ELSE "accept"

AccScreen ==
  IF page # "AcceptInvitation" THEN "none"
  ELSE IF acc.loading THEN "spinner"
  ELSE IF acc.error # "null" \/ acc.invitationInfo = {} THEN "error"
  ELSE IF AccIsExpired THEN "expired"
  ELSE IF ~AccInfo.is_valid THEN "invalid"
  ELSE IF user = {} THEN "signin"
  ELSE "accept"

AccShowsAcceptWhileAccepting == AccScreen = "accept"

\* the Accept Invitation button is shown and enabled (disabled={accepting})
AccShowsAccept == AccScreen = "accept" /\ ~acc.accepting

\* the public route /invitation/:token is mounted; useEffect runs the load
AccMount(t) ==
  /\ Alive
  /\ page # "AcceptInvitation"
  /\ page' = "AcceptInvitation"
  /\ href' = PageHref("AcceptInvitation", t)
  /\ acc' = [InitAccState EXCEPT !.token = t] /\ rtj' = InitRtjState
  /\ grp' = InitGrpState
  /\ gd' = InitGDState /\ dash' = InitDashState /\ inbox' = InitInboxState
  /\ loads' = SetToBag({NewLoad("acc", t, "info")})
  /\ acts' = EmptyBag
  /\ UNCHANGED <<now, srv, authVars>>
  /\ UNCHANGED <<env, navTarget, httpPending, authToken, httpSent, httpLast>>
  /\ Silent /\ NoDialog /\ NoCall
  /\ Gesture
  /\ lastErr' = NoError
  /\ refetched' = {}

\* getInvitationInfo answers: setInvitationInfo(response.data); setLoading(false)
AccLoadDeliver(l) ==
  /\ Alive
  /\ page = "AcceptInvitation"
  /\ BagIn(l, loads) /\ l.comp = "acc" /\ l.snap.present
  /\ UNCHANGED <<rtj, grp>>
  /\ acc' = [acc EXCEPT !.invitationInfo = l.snap.info, !.loading = FALSE]
  /\ loads' = Take(loads, l)
  /\ UNCHANGED <<page, now, srv, gd, dash, inbox, acts>>
  /\ UNCHANGED <<httpVars, authVars>>
  /\ Silent /\ NoDialog /\ NoCall
  /\ UNCHANGED clicks
  /\ lastErr' = NoError
  /\ UNCHANGED refetched

\* faulty variant of InvitationLoadError: a 404 is reported like any failure
InvitationLoadErrorGeneric(err) == ErrorText(err, "Failed to load invitation information")

\* the text the catch branch of loadInvitationInfo passes to setError
InvitationLoadError(err) ==
  IF StatusIs(err, 404)
  THEN "This invitation is invalid or has expired."
  ELSE ErrorText(err, "Failed to load invitation information")

\* getInvitationInfo fails: setError(...); setLoading(false)
AccLoadFail(l, err) ==
  /\ Alive
  /\ page = "AcceptInvitation"
  /\ BagIn(l, loads) /\ l.comp = "acc" /\ ~l.snap.present
  /\ navTarget' = ApiRedirect(err)
  /\ UNCHANGED <<rtj, grp>>
  /\ acc' = [acc EXCEPT !.error = InvitationLoadError(err), !.loading = FALSE]
  /\ loads' = Take(loads, l)
  /\ UNCHANGED <<page, now, srv, gd, dash, inbox, acts, authVars>>
  /\ UNCHANGED <<env, href, httpPending, authToken, httpSent, httpLast>>
  /\ Silent /\ NoDialog /\ NoCall
  /\ UNCHANGED clicks
  /\ lastErr' = err
  /\ UNCHANGED refetched

\* handleAcceptInvitation up to its await
AccAccept ==
  /\ Alive
  /\ AccShowsAccept
  /\ acc.token # "none" /\ user # {}
  /\ InFlight < MaxInFlight
  /\ UNCHANGED <<rtj, grp>>
  /\ acc' = [acc EXCEPT !.accepting = TRUE]
  /\ acts' = Put(acts, NewAct("acceptPage", "-", "-", acc.token, "-"))
  /\ UNCHANGED <<page, now, srv, gd, dash, inbox, loads>>
  /\ UNCHANGED <<httpVars, authVars>>
  /\ Silent /\ NoDialog /\ NoCall
  /\ Gesture
  /\ lastErr' = NoError
  /\ UNCHANGED refetched

\* accept succeeds: toast.success(...); navigate('/dashboard'), which mounts
\* the Dashboard and runs its load
AccAcceptOk(a) ==
  /\ Alive
  /\ page = "AcceptInvitation"
  /\ BagIn(a, acts) /\ a.kind = "acceptPage"
  /\ SrvPermits(a)
  /\ srv' = SrvApply(a)
  /\ toast' = Toast("success", SuccessText(a.kind))
  /\ page' = "Dashboard"
  /\ href' = PageHref("Dashboard", "-")
  /\ acc' = InitAccState /\ rtj' = InitRtjState
  /\ grp' = InitGrpState
  /\ dash' = InitDashState
  /\ loads' = SetToBag({NewLoad("dash", "-", "myGroups")})
  /\ acts' = EmptyBag
  /\ lastAct' = Settled(a, TRUE)
  /\ UNCHANGED <<now, gd, inbox, authVars>>
  /\ UNCHANGED <<env, navTarget, httpPending, authToken, httpSent, httpLast>>
  /\ NoDialog
  /\ UNCHANGED clicks
  /\ lastErr' = NoError
  /\ UNCHANGED refetched

\* accept fails: toast.error(...); finally setAccepting(false)
AccAcceptFail(a, err) ==
  /\ Alive
  /\ page = "AcceptInvitation"
  /\ BagIn(a, acts) /\ a.kind = "acceptPage"
  /\ navTarget' = ApiRedirect(err)
  /\ toast' = Toast("error", ErrorText(err, FailureText(a.kind)))
  /\ UNCHANGED <<rtj, grp>>
  /\ acc' = [acc EXCEPT !.accepting = FALSE]
  /\ acts' = Take(acts, a)
  /\ lastAct' = Settled(a, FALSE)
  /\ UNCHANGED <<page, now, srv, gd, dash, inbox, loads, authVars>>
  /\ UNCHANGED <<env, href, httpPending, authToken, httpSent, httpLast>>
  /\ NoDialog
  /\ UNCHANGED clicks
  /\ lastErr' = err
  /\ UNCHANGED refetched

(***************************************************************************)
(* RequestToJoin (RequestToJoin.tsx, first component)                      *)
(***************************************************************************)
RtjInfo == CHOOSE i \in rtj.joinInfo : TRUE

\* which of the render branches (lines 106-254) the component returns
RtjScreen ==
  IF page # "RequestToJoin" THEN "none"
  ELSE IF rtj.loading THEN "spinner"
  ELSE IF rtj.error # "null" \/ rtj.joinInfo = {} THEN "error"
  ELSE IF isInvitationExpired(RtjInfo.expires_at) THEN "expired"
  ELSE IF ~RtjInfo.is_valid THEN "invalid"
  ELSE IF user = {} THEN "signin"
  ELSE "form"

\* the Submit Join Request button is shown and enabled
RtjShowsSubmit == RtjScreen = "form" /\ ~rtj.submitting

\* a public route /join/:token or /join-group/:groupId is mounted; useEffect
\* runs loadJoinInfo
RtjMount(via, id) ==
  /\ Alive
  /\ page # "RequestToJoin"
  /\ page' = "RequestToJoin"
  /\ href' = PageHref("RequestToJoin", id)
  /\ rtj' = [InitRtjState EXCEPT !.via = via, !.id = id]
  /\ grp' = InitGrpState
  /\ gd' = InitGDState /\ dash' = InitDashState /\ inbox' = InitInboxState
  /\ acc' = InitAccState
  /\ loads' = SetToBag({NewLoad("rtj", id, IF via = "token" THEN "joinInfo" ELSE "publicGroup")})
  /\ acts' = EmptyBag
  /\ UNCHANGED <<now, srv, authVars>>
  /\ UNCHANGED <<env, navTarget, httpPending, authToken, httpSent, httpLast>>
  /\ Silent /\ NoDialog /\ NoCall
  /\ Gesture
  /\ lastErr' = NoError
  /\ refetched' = {}

\* the lookup answers: setJoinInfo(...); setLoading(false).  For a group id
\* the page makes up the join info: valid, expiring seven days from now
RtjLoadDeliver(l) ==
  /\ Alive
  /\ page = "RequestToJoin"
  /\ BagIn(l, loads) /\ l.comp = "rtj" /\ l.snap.present
  /\ UNCHANGED grp
  /\ rtj' = [rtj EXCEPT
               !.joinInfo = IF l.stage = "joinInfo" THEN l.snap.info
                            ELSE {[expires_at |-> now + MaxTime + 1, is_valid |-> TRUE]},
               !.loading = FALSE]
  /\ loads' = Take(loads, l)
  /\ UNCHANGED <<page, now, srv, gd, dash, inbox, acc, acts>>
  /\ UNCHANGED <<httpVars, authVars>>
  /\ Silent /\ NoDialog /\ NoCall
  /\ UNCHANGED clicks
  /\ lastErr' = NoError
  /\ UNCHANGED refetched

\* the text the catch branch of loadJoinInfo passes to setError
JoinLoadError(err, byGroupId) ==
  IF StatusIs(err, 404)
  THEN (IF byGroupId THEN "This group does not exist."
        ELSE "This join link is invalid or has expired.")
  ELSE ErrorText(err, "Failed to load group information")

\* the lookup fails: setError(...); setLoading(false)
RtjLoadFail(l, err) ==
  /\ Alive
  /\ page = "RequestToJoin"
  /\ BagIn(l, loads) /\ l.comp = "rtj" /\ ~l.snap.present
  /\ navTarget' = ApiRedirect(err)
  /\ UNCHANGED grp
  /\ rtj' = [rtj EXCEPT !.error = JoinLoadError(err, l.stage = "publicGroup"),
                        !.loading = FALSE]
  /\ loads' = Take(loads, l)
  /\ UNCHANGED <<page, now, srv, gd, dash, inbox, acc, acts, authVars>>
  /\ UNCHANGED <<env, href, httpPending, authToken, httpSent, httpLast>>
  /\ Silent /\ NoDialog /\ NoCall
  /\ UNCHANGED clicks
  /\ lastErr' = err
  /\ UNCHANGED refetched

\* handleRequestToJoin up to its await
handleRequestToJoin ==
  /\ Alive
  /\ RtjShowsSubmit
  /\ rtj.id # "none" /\ user # {}
  /\ InFlight < MaxInFlight
  /\ UNCHANGED grp
  /\ rtj' = [rtj EXCEPT !.submitting = TRUE]
  /\ acts' = Put(acts, NewAct(IF rtj.via = "token" THEN "joinToken" ELSE "joinGroup",
                              "-", "-", rtj.id, "-"))
  /\ UNCHANGED <<page, now, srv, gd, dash, inbox, acc, loads>>
  /\ UNCHANGED <<httpVars, authVars>>
  /\ Silent /\ NoDialog /\ NoCall
  /\ Gesture
  /\ lastErr' = NoError
  /\ UNCHANGED refetched

\* the request is accepted: toast.success(...); navigate('/dashboard')
RtjSubmitOk(a) ==
  /\ Alive
  /\ page = "RequestToJoin"
  /\ BagIn(a, acts) /\ a.kind \in {"joinToken", "joinGroup"}
  /\ SrvPermits(a)
  /\ srv' = SrvApply(a)
  /\ toast' = Toast("success", SuccessText(a.kind))
  /\ page' = "Dashboard"
  /\ href' = PageHref("Dashboard", "-")
  /\ rtj' = InitRtjState
  /\ grp' = InitGrpState
  /\ dash' = InitDashState
  /\ loads' = SetToBag({NewLoad("dash", "-", "myGroups")})
  /\ acts' = EmptyBag
  /\ lastAct' = Settled(a, TRUE)
  /\ UNCHANGED <<now, gd, inbox, acc, authVars>>
  /\ UNCHANGED <<env, navTarget, httpPending, authToken, httpSent, httpLast>>
  /\ NoDialog
  /\ UNCHANGED clicks
  /\ lastErr' = NoError
  /\ UNCHANGED refetched

\* the text the catch branch of handleRequestToJoin passes to toast.error
JoinSubmitError(err) ==
  IF err.response /\ err.data.present /\ ~Falsy(err.data.message)
  THEN err.data.message
  ELSE ErrorText(err, "Failed to submit join request")

\* the request fails: toast.error(...); finally setSubmitting(false)
RtjSubmitFail(a, err) ==
  /\ Alive
  /\ page = "RequestToJoin"
  /\ BagIn(a, acts) /\ a.kind \in {"joinToken", "joinGroup"}
  /\ navTarget' = ApiRedirect(err)
  /\ toast' = Toast("error", JoinSubmitError(err))
  /\ UNCHANGED grp
  /\ rtj' = [rtj EXCEPT !.submitting = FALSE]
  /\ acts' = Take(acts, a)
  /\ lastAct' = Settled(a, FALSE)
  /\ UNCHANGED <<page, now, srv, gd, dash, inbox, acc, loads, authVars>>
  /\ UNCHANGED <<env, href, httpPending, authToken, httpSent, httpLast>>
  /\ NoDialog
  /\ UNCHANGED clicks
  /\ lastErr' = err
  /\ UNCHANGED refetched

\* the Sign In to Continue button of AcceptInvitation and RequestToJoin
SignInToContinue ==
  /\ Alive
  /\ AccScreen = "signin" \/ RtjScreen = "signin"
  /\ handleLogin
  /\ UNCHANGED <<page, now, srv, gd, dash, inbox, acc, rtj, grp, loads, acts, authVars>>
  /\ Silent /\ NoDialog /\ NoCall
  /\ Gesture
  /\ lastErr' = NoError
  /\ UNCHANGED refetched

(***************************************************************************)
(* Groups (Groups.tsx)                                                     *)
(***************************************************************************)
\* the component returns the page body, not the spinner
GrpRendered == page = "Groups" /\ ~grp.loading

\* a filter button is clicked: setFilter(f); the effect on [filter] runs loadGroups
GroupsSetFilter(f) ==
  /\ Alive
  /\ GrpRendered
  /\ f # grp.filter
  /\ InFlight < MaxInFlight
  /\ grp' = [grp EXCEPT !.filter = f, !.loading = TRUE]
  /\ loads' = Put(loads, NewLoad("grp", f, "groups"))
  /\ UNCHANGED <<page, now, srv, gd, dash, inbox, acc, rtj, acts>>
  /\ UNCHANGED <<httpVars, authVars>>
  /\ Silent /\ NoDialog /\ NoCall
  /\ Gesture
  /\ lastErr' = NoError
  /\ UNCHANGED refetched

\* listGroups answers: setGroups(response.data.groups); setLoading(false)
GroupsLoadDeliver(l) ==
  /\ Alive
  /\ page = "Groups"
  /\ BagIn(l, loads) /\ l.comp = "grp" /\ l.snap.present
  /\ grp' = [grp EXCEPT !.groups = l.snap.myGroups, !.loading = FALSE]
  /\ loads' = Take(loads, l)
  /\ UNCHANGED <<page, now, srv, gd, dash, inbox, acc, rtj, acts>>
  /\ UNCHANGED <<httpVars, authVars>>
  /\ Silent /\ NoDialog /\ NoCall
  /\ UNCHANGED clicks
  /\ lastErr' = NoError
  /\ UNCHANGED refetched

\* listGroups fails: toast.error(...); setLoading(false)
GroupsLoadFail(l, err) ==
  /\ Alive
  /\ page = "Groups"
  /\ BagIn(l, loads) /\ l.comp = "grp" /\ ~l.snap.present
  /\ navTarget' = ApiRedirect(err)
  /\ toast' = Toast("error", ErrorText(err, "Failed to load groups"))
  /\ grp' = [grp EXCEPT !.loading = FALSE]
  /\ loads' = Take(loads, l)
  /\ UNCHANGED <<page, now, srv, gd, dash, inbox, acc, rtj, acts, authVars>>
  /\ UNCHANGED <<env, href, httpPending, authToken, httpSent, httpLast>>
  /\ NoDialog /\ NoCall
  /\ UNCHANGED clicks
  /\ lastErr' = err
  /\ UNCHANGED refetched

(***************************************************************************)
(* Routing between the pages                                               *)
(***************************************************************************)
\* the route element of /detail is mounted; useEffect runs loadGroups
GroupsMount ==
  /\ Alive
  /\ page # "Groups"
  /\ user # {}
  /\ page' = "Groups"
  /\ href' = PageHref("Groups", "-")
  /\ gd' = InitGDState /\ dash' = InitDashState /\ inbox' = InitInboxState
  /\ acc' = InitAccState /\ rtj' = InitRtjState
  /\ grp' = InitGrpState
  /\ loads' = SetToBag({NewLoad("grp", "all", "groups")})
  /\ acts' = EmptyBag
  /\ UNCHANGED <<now, srv, authVars>>
  /\ UNCHANGED <<env, navTarget, httpPending, authToken, httpSent, httpLast>>
  /\ Silent /\ NoDialog /\ NoCall
  /\ Gesture
  /\ lastErr' = NoError
  /\ refetched' = {}

(***************************************************************************)
(* Specifications                                                          *)
(***************************************************************************)
ProdEnv == CHOOSE e \in Envs : e.MODE = "production" /\ e.VITE_BASE_URL = <<>>

\* a signed-in session, as fetchUser leaves it
SignedIn ==
  {NormalizeUser(FlatPayload([id |-> Me, email |-> "e1", name |-> "n1", full_name |-> "f1",
                              email_verified |-> "true", group_memberships |-> "[m1]",
                              pending_invitations_count |-> "2"]))}

InitHttpIdle ==
  /\ env = ProdEnv
  /\ navTarget = <<>>
  /\ httpPending = [c \in Clients |-> 0]
  /\ authToken = "null"
  /\ httpSent = NoRequest
  /\ httpLast = NoSettled

InitViewsIdle ==
  /\ page = "Groups"
  /\ now = 0
  /\ srv \in {s \in InitSrvStates : s.role["g1"] = "administrator"}
  /\ gd = InitGDState /\ dash = InitDashState /\ inbox = InitInboxState /\ acc = InitAccState
  /\ rtj = InitRtjState
  /\ grp = InitGrpState
  /\ loads = EmptyBag /\ acts = EmptyBag
  /\ clicks = 0 /\ refetched = {}
  /\ toast = NoToast /\ lastConfirm = NoConfirm /\ lastAct = NoSettle
  /\ lastErr = NoError

\* the API access layer alone: no provider, no page
InitHttpOnly == InitHttp /\ InitAuth /\ InitViewsIdle

NextHttp ==
  \/ \E t \in AuthTokens : StorageSet(t) /\ UNCHANGED <<authVars, viewVars>>
  \/ \E c \in Clients : HttpSend(c) /\ UNCHANGED <<authVars, viewVars>>
  \/ \E c \in Clients : HttpRespondOk(c) /\ UNCHANGED <<authVars, viewVars>>
  \/ \E c \in Clients, e \in AxiosErrors :
        HttpRespondErr(c, e) /\ UNCHANGED <<authVars, viewVars>>
  \/ \E h \in Hrefs : HttpNavigate(h) /\ UNCHANGED <<authVars, viewVars>>
  \/ HttpReturnFromLogin /\ UNCHANGED <<authVars, viewVars>>
  \/ \E r \in {<<>>} \cup Hrefs : authLogin("login", r) /\ UNCHANGED <<authVars, viewVars>>
  \/ handleLogin /\ UNCHANGED <<authVars, viewVars>>

SpecHttp == InitHttpOnly /\ [][NextHttp]_vars

\* the session manager: the production build opened on the group list
InitAuthOnly ==
  InitHttpIdle /\ href = PageHref("Groups", "-") /\ InitAuth /\ InitViewsIdle

NextAuth ==
  \/ AuthMount /\ UNCHANGED viewVars
  \/ RefreshUser /\ UNCHANGED viewVars
  \/ \E s \in Shapes, f \in SessionFields : FetchUserOk(s, f) /\ UNCHANGED viewVars
  \/ \E e \in SessionErrors : FetchUserErr(e) /\ UNCHANGED viewVars

SpecAuth == InitAuthOnly /\ [][NextAuth]_vars

\* signing out: the session manager in any build, with or without a stored
\* token; the session is fetched (one payload per shape, the failures of
\* LogoutErrors) while logout is called
InitLogout ==
  /\ env \in Envs
  /\ href = PageHref("Groups", "-")
  /\ navTarget = <<>>
  /\ httpPending = [c \in Clients |-> 0]
  /\ authToken \in {"null", "t1"}
  /\ httpSent = NoRequest
  /\ httpLast = NoSettled
  /\ InitAuth
  /\ InitViewsIdle

NextLogout ==
  \/ AuthMount /\ UNCHANGED viewVars
  \/ RefreshUser /\ UNCHANGED viewVars
  \/ \E sh \in Shapes : FetchUserOk(sh, NoFetch.fields) /\ UNCHANGED viewVars
  \/ \E e \in LogoutErrors : FetchUserErr(e) /\ UNCHANGED viewVars
  \/ \E r \in {<<>>, Origin \o <<"/", "g">>} : LogoutCall(r) /\ UNCHANGED viewVars
  \/ \E b \in LogoutBodies : LogoutOk(b) /\ UNCHANGED viewVars
  \/ \E e \in LogoutErrors : LogoutErr(e) /\ UNCHANGED viewVars

SpecLogout == InitLogout /\ [][NextLogout]_vars

\* the pages: a visitor, signed in or not; a signed-in visitor starts on the
\* group list, an anonymous one on an invitation link
InitViews ==
  /\ InitHttpIdle
  /\ authLoading = FALSE /\ authError = "null" /\ authMounted = TRUE /\ fetches = 0
  /\ lastFetch = NoFetch
  /\ logouts = 0 /\ lastLogout = NoLogout
  /\ now = 0
  /\ InitSrv
  /\ gd = InitGDState /\ dash = InitDashState /\ inbox = InitInboxState
  /\ acts = EmptyBag
  /\ clicks = 0 /\ refetched = {}
  /\ toast = NoToast /\ lastConfirm = NoConfirm /\ lastAct = NoSettle
  /\ lastErr = NoError
  /\ \/ /\ user = SignedIn
        /\ page = "Groups" /\ href = PageHref("Groups", "-")
        /\ acc = InitAccState
        /\ loads = SetToBag({NewLoad("grp", "all", "groups")})
        /\ rtj = InitRtjState
        /\ grp = InitGrpState
     \/ /\ user = {}
        /\ page = "AcceptInvitation" /\ href = PageHref("AcceptInvitation", "t2")
        /\ acc = [InitAccState EXCEPT !.token = "t2"]
        /\ rtj = InitRtjState
        /\ grp = InitGrpState
        /\ loads = SetToBag({NewLoad("acc", "t2", "info")})

NextViews ==
  \/ Tick
  \/ \E l \in BagToSet(loads) : LoadServe(l)
  \/ GroupsMount
  \/ \E f \in {"all", "my"} : GroupsSetFilter(f)
  \/ \E l \in BagToSet(loads) : GroupsLoadDeliver(l)
  \/ \E l \in BagToSet(loads), e \in ListLoadErrors : GroupsLoadFail(l, e)
  \/ \E g \in Groups : GDMount(g)
  \/ \E g \in Groups : GDRouteChange(g)
  \/ \E l \in BagToSet(loads) : GDLoadDeliver(l)
  \/ \E l \in BagToSet(loads), e \in GroupLoadErrors : GDLoadFail(l, e)
  \/ \E t \in {"members", "invitations", "requests"} : GDSetTab(t)
  \/ GDOpenInvite
  \/ GDOpenEdit
  \/ \E w \in {"invite", "edit"} : GDCloseModal(w)
  \/ \E b \in BOOLEAN : handleDeleteGroup(b)
  \/ \E m \in gd.members, b \in BOOLEAN : handleRemoveMember(m, b)
  \/ \E i \in gd.invitations, b \in BOOLEAN : handleRevokeInvitation(i, b)
  \/ \E r \in gd.joinRequests, b \in BOOLEAN : handleDenyJoinRequest(r, b)
  \/ \E m \in gd.members, r \in Roles : handleUpdateRole(m, r)
  \/ \E r \in gd.joinRequests, role \in FormRoles : handleApproveJoinRequest(r, role)
  \/ \E r \in FormRoles : InviteSubmit(r)
  \/ EditSubmit
  \/ \E a \in BagToSet(acts) : GDHandlerOk(a)
  \/ \E a \in BagToSet(acts) : GDModalOk(a)
  \/ \E a \in BagToSet(acts) : GDDeleteOk(a)
  \/ \E a \in BagToSet(acts), e \in CallErrors : GDActFail(a, e)
  \/ DashMount
  \/ \E l \in BagToSet(loads) : DashLoadDeliver(l)
  \/ \E l \in BagToSet(loads), e \in ListLoadErrors : DashLoadFail(l, e)
  \/ \E i \in DashShownInvitations : DashAccept(i)
  \/ \E a \in BagToSet(acts) : DashAcceptOk(a)
  \/ InboxMount
  \/ \E l \in BagToSet(loads) : InboxLoadDeliver(l)
  \/ \E l \in BagToSet(loads), e \in ListLoadErrors : InboxLoadFail(l, e)
  \/ \E i \in InboxShownInvitations : InboxAccept(i)
  \/ \E a \in BagToSet(acts) : InboxAcceptOk(a)
  \/ \E a \in BagToSet(acts), e \in CallErrors : ListAcceptFail(a, e)
  \/ \E t \in Tokens : AccMount(t)
  \/ \E l \in BagToSet(loads) : AccLoadDeliver(l)
  \/ \E l \in BagToSet(loads), e \in TokenLoadErrors : AccLoadFail(l, e)
  \/ AccAccept
  \/ \E a \in BagToSet(acts) : AccAcceptOk(a)
  \/ \E a \in BagToSet(acts), e \in CallErrors : AccAcceptFail(a, e)
  \/ \E t \in JoinTokens : RtjMount("token", t)
  \/ RtjMount("group", "g2")
  \/ \E l \in BagToSet(loads) : RtjLoadDeliver(l)
  \/ \E l \in BagToSet(loads), e \in TokenLoadErrors : RtjLoadFail(l, e)
  \/ handleRequestToJoin
  \/ \E a \in BagToSet(acts) : RtjSubmitOk(a)
  \/ \E a \in BagToSet(acts), e \in CallErrors : RtjSubmitFail(a, e)
  \/ SignInToContinue

\* the default specification: the view layer
Spec == InitViews /\ [][NextViews]_vars

\* a request of a page load is answered: with its data, or with an error
LoadAnswered ==
  \E l \in BagToSet(loads) :
    \/ LoadServe(l)
    \/ GroupsLoadDeliver(l) \/ GDLoadDeliver(l) \/ DashLoadDeliver(l)
    \/ InboxLoadDeliver(l) \/ AccLoadDeliver(l) \/ RtjLoadDeliver(l)
    \/ \E e \in ListLoadErrors :
         GroupsLoadFail(l, e) \/ DashLoadFail(l, e) \/ InboxLoadFail(l, e)
    \/ \E e \in GroupLoadErrors : GDLoadFail(l, e)
    \/ \E e \in TokenLoadErrors : AccLoadFail(l, e) \/ RtjLoadFail(l, e)

\* the pages, every request of a load being answered eventually
SpecAnswered == InitViews /\ [][NextViews]_vars /\ WF_vars(LoadAnswered)

\* a consumer-independent step of the session manager: the mount effect runs,
\* or a /session request is answered
SessionAnswered ==
  \/ AuthMount /\ UNCHANGED viewVars
  \/ \E sh \in Shapes, f \in SessionFields : FetchUserOk(sh, f) /\ UNCHANGED viewVars
  \/ \E e \in SessionErrors : FetchUserErr(e) /\ UNCHANGED viewVars

\* the session manager, every /session request being answered eventually
SpecAuthAnswered == InitAuthOnly /\ [][NextAuth]_vars /\ WF_vars(SessionAnswered)

(***************************************************************************)
(* Properties of the API access layer (SpecHttp)                           *)
(***************************************************************************)
\* C1: for a request through either axios instance, a 401 response rejects the
\* promise and assigns {auth base}/login?referrer={encoded current URL} to
\* window.location.href.  The expected encodings are written out literally.
C1_UnauthorizedRedirects ==
  LET login == <<"/", "l", "o", "g", "i", "n", "?", "r", "e", "f", "e", "r", "r", "e", "r", "=">>
      root == <<"h", "%", "3", "A", "%", "2", "F", "%", "2", "F", "h", "%", "2", "F">>
      encoded(h) ==
        CASE h = Origin \o <<"/", "g">> -> root \o <<"g">>
          [] h = Origin \o <<"/", "g", "/", "1">> -> root \o <<"g", "%", "2", "F", "1">>
          [] OTHER -> root \o <<"i", "%", "2", "F", "t", "%", "3", "F", "a", "%", "3", "D",
                                "b", "%", "2", "6", "p", "%", "2", "3", "2">>
      expected == AUTH_API_BASE_URL(env) \o login \o encoded(httpLast.hrefAt)
  IN (httpLast.settled # "none" /\ StatusIs(httpLast.err, 401)) =>
       /\ httpLast.settled = "rejected"
       /\ httpLast.assigned = expected
       /\ navTarget = expected

\* a 401 on the groups client, in the development build with its separate auth
\* backend, on a page whose URL carries a query string and a fragment
C1_RedirectedFromQueryPage ==
  /\ httpLast.settled = "rejected"
  /\ StatusIs(httpLast.err, 401)
  /\ httpLast.client = "api"
  /\ env.MODE = "development"
  /\ "?" \in {httpLast.hrefAt[i] : i \in 1..Len(httpLast.hrefAt)}
  /\ navTarget = httpLast.assigned /\ navTarget # <<>>

\* C11: a failed request that is not a 401 is rejected with one userMessage:
\* the body's message if non-empty, else its error, else its detail, else
\* "Server error (status)" whenever a response was received, and the
\* connectivity message whenever no response was received
C11_UserMessageChosen ==
  LET e == httpLast.err
      nonEmpty(v) == v \notin {"", "undefined", "null"}
      expected ==
        IF e.response
        THEN IF nonEmpty(e.data.message) THEN e.data.message
             ELSE IF nonEmpty(e.data.error) THEN e.data.error
             ELSE IF nonEmpty(e.data.detail) THEN e.data.detail
             ELSE "Server error (" \o ToString(e.status) \o ")"
        ELSE "Unable to connect to server. Please check your internet connection."
  IN (httpLast.failed /\ ~StatusIs(e, 401)) =>
       /\ httpLast.settled = "rejected"
       /\ httpLast.userMessage = expected

\* C20: login sends no request and assigns {auth base}/login?referrer=
\* {encoded return URL} to window.location.href; the return URL is the
\* referrer passed, or origin + UI base path + "/" when none is passed; the
\* sign-in buttons of the public pages pass the URL of the current page.
\* The expected encodings are written out literally.
C20_LoginRedirects ==
  [][(httpLast.settled # "login" /\ httpLast'.settled = "login") =>
       LET l == <<"/", "l", "o", "g", "i", "n", "?", "r", "e", "f", "e", "r", "r", "e", "r", "=">>
           root == <<"h", "%", "3", "A", "%", "2", "F", "%", "2", "F", "h", "%", "2", "F">>
           encoded(h) ==
             CASE h = Origin \o <<"/", "g">> -> root \o <<"g">>
               [] h = Origin \o <<"/", "g", "/", "1">> -> root \o <<"g", "%", "2", "F", "1">>
               [] h = <<>> /\ env.VITE_UI_BASE_PATH = <<>> ->
                    root \o <<"d", "e", "r", "i", "v", "a", "%", "2", "F", "a", "p", "p", "s",
                              "%", "2", "F">>
               [] h = <<>> /\ env.VITE_UI_BASE_PATH # <<>> ->
                    root \o <<"u", "i", "%", "2", "F">>
               [] OTHER -> root \o <<"i", "%", "2", "F", "t", "%", "3", "F", "a", "%", "3", "D",
                                     "b", "%", "2", "6", "p", "%", "2", "3", "2">>
       IN /\ httpPending' = httpPending
          /\ navTarget' = AUTH_API_BASE_URL(env) \o l \o encoded(httpLast'.referrer)
          /\ httpLast'.caller = "handleLogin" => httpLast'.referrer = href]_vars

\* sign-in was started from the invitation page, whose URL has a query string
C20_SignInFromInvitationLink ==
  /\ httpLast.settled = "login" /\ httpLast.caller = "handleLogin"
  /\ "?" \in {httpLast.referrer[i] : i \in 1..Len(httpLast.referrer)}
  /\ navTarget = httpLast.assigned /\ navTarget # <<>>
  /\ httpPending = [c \in Clients |-> 0]

\* C22: a request sent through either axios instance carries the header
\* Authorization: Bearer <token> exactly when local storage holds a non-empty
\* authToken at the moment it is sent, and the token is the one stored at that
\* moment
C22_BearerIffTokenStored ==
  [][(\E c \in Clients : httpPending'[c] > httpPending[c]) =>
       /\ httpSent'.client \in Clients
       /\ httpPending'[httpSent'.client] > httpPending[httpSent'.client]
       /\ httpSent'.Authorization =
            CASE authToken = "t1" -> "Bearer t1"
              [] authToken = "t2" -> "Bearer t2"
              [] OTHER            -> "undefined"]_vars

\* a request has just left with the token t2 while an earlier request of the
\* same instance, sent before t2 was stored, is still pending
C22_SentWithReplacedToken ==
  /\ httpSent.client = "api"
  /\ httpSent.Authorization = "Bearer t2"
  /\ httpPending["api"] = 2
  /\ authToken = "t2"

(***************************************************************************)
(* Properties of the session manager (SpecAuth)                            *)
(***************************************************************************)
\* C2: every completion of a session fetch with HTTP 404 leaves user absent,
\* error null and loading false
C2_NotFoundClearsSession ==
  [][(fetches' < fetches /\ lastFetch'.kind = "404") =>
       (user' = {} /\ authError' = "null" /\ authLoading' = FALSE)]_vars

\* C3: every completion of a session fetch with a failure other than 404 sets
\* the generic error message and leaves the user record as it was
C3_FailureKeepsUser ==
  [][(fetches' < fetches /\ lastFetch'.kind = "fail") =>
       (user' = user /\ authError' = SessionFetchError)]_vars

\* a refresh has failed while a user was loaded: the user is still there
C3_FailedRefreshWithUser ==
  /\ lastFetch.kind = "fail"
  /\ user # {}
  /\ authError = SessionFetchError
  /\ fetches = 0

\* C4: the user record stored from a /session payload is the one
\* normalisation yields for the legacy and for the flat payload carrying the
\* same field values
C4_ShapesNormalizeAlike ==
  (lastFetch.kind = "ok" /\ user # {}) =>
    \A s \in Shapes : user = {NormalizeUser(PayloadOf(s, lastFetch.fields))}

(***************************************************************************)
(* Properties of the pages (Spec)                                          *)
(***************************************************************************)
\* C5: when the call of a mutating action (update role, remove member, revoke,
\* approve, deny, invite, edit group, accept on the Dashboard or in the inbox)
\* succeeds, a success notification is raised and a load of the page is
\* started; when it fails, an error notification is raised, no load is started
\* and the page's data (group, members, invitations, join requests, modal
\* flags, Dashboard and inbox lists) is unchanged
C5_MutationOutcome ==
  [][LET listed == {"updateRole", "removeMember", "revoke", "approve", "deny", "invite",
                    "editGroup", "acceptDash", "acceptInbox"}
         first(k) == CASE k = "acceptDash"  -> "myGroups"
                       [] k = "acceptInbox" -> "pending"
                       [] OTHER             -> "group"
     IN lastAct'.kind \in listed =>
          IF lastAct'.ok
          THEN /\ toast'.kind = "success"
               /\ BagCardinality(loads') = BagCardinality(loads) + 1
               /\ \E l \in BagToSet(loads') :
                    /\ l.stage = first(lastAct'.kind) /\ ~l.snap.present
                    /\ CopiesIn(l, loads') = CopiesIn(l, loads) + 1
          ELSE /\ toast'.kind = "error"
               /\ loads' = loads
               /\ gd.group' = gd.group /\ gd.members' = gd.members
               /\ gd.invitations' = gd.invitations /\ gd.joinRequests' = gd.joinRequests
               /\ gd.showInviteModal' = gd.showInviteModal
               /\ gd.showEditModal' = gd.showEditModal
               /\ dash.recentGroups' = dash.recentGroups
               /\ dash.pendingInvitations' = dash.pendingInvitations
               /\ dash.stats' = dash.stats
               /\ inbox.invitations' = inbox.invitations]_vars

\* an approval has just succeeded: success notification, page reloading
C5_ApproveSucceeded ==
  /\ lastAct = [kind |-> "approve", ok |-> TRUE]
  /\ toast.kind = "success"
  /\ page = "GroupDetail" /\ gd.loading
  /\ \E l \in BagToSet(loads) : l.stage = "group"

\* C6: a destructive action (delete group, remove member, revoke invitation,
\* deny join request) sends its call only in the step in which the user
\* confirms; a cancelled confirmation sends nothing, starts no load and leaves
\* the service and the group, member, invitation and join-request lists alone
C6_ConfirmBeforeCall ==
  [][LET destructive == {"deleteGroup", "removeMember", "revoke", "deny"}
     IN /\ (lastConfirm'.op \in destructive /\ ~lastConfirm'.answer) =>
             /\ acts' = acts /\ loads' = loads /\ srv' = srv
             /\ gd.group' = gd.group /\ gd.members' = gd.members
             /\ gd.invitations' = gd.invitations /\ gd.joinRequests' = gd.joinRequests
        /\ \A a \in BagToSet(acts') :
             (a.kind \in destructive /\ CopiesIn(a, acts') > CopiesIn(a, acts)) =>
               lastConfirm' = [op |-> a.kind, answer |-> TRUE]]_vars

\* the user has just cancelled the revocation of a listed invitation
C6_RevokeCancelled ==
  /\ lastConfirm = [op |-> "revoke", answer |-> FALSE]
  /\ \E i \in ShownInvitations : i.status = "pending"
  /\ acts = EmptyBag /\ loads = EmptyBag

\* C7: the invite button, the management menu, the invitations and requests
\* tabs and the invitation and join-request rows with their actions are
\* displayed only to an administrator or manager of the displayed group, edit
\* and delete only to an administrator
C7_ControlsOnlyForManagers ==
  /\ (\/ ShowsInviteButton \/ ShowsManagementMenu
      \/ ShowsInvitationsTab \/ ShowsRequestsTab
      \/ ShownInvitations # {} \/ ShownRequests # {}
      \/ \E i \in gd.invitations : ShowsRevoke(i)
      \/ \E r \in gd.joinRequests : ShowsDeny(r) \/ \E role \in Roles : ShowsApprove(r, role))
       => canManageGroup
  /\ (ShowsEditGroup \/ ShowsDeleteGroup) => canAdminGroup

\* C8: once the approval of a join request has succeeded and the load it
\* started has completed, the displayed join-request list does not contain
\* the request as pending
C8_ApprovedNotShownPending ==
  \A id \in refetched : ~ \E r \in ShownRequests : r.id = id /\ r.status = "pending"

\* C9: on the Dashboard, in the inbox and on the AcceptInvitation page the
\* accept action is offered only for an invitation that has not expired
C9_AcceptOnlyUnexpired ==
  /\ \A i \in DashShownInvitations : DashShowsAccept(i) => ~(i.expires_at < now)
  /\ \A i \in InboxShownInvitations : InboxShowsAccept(i) => ~(i.expires_at < now)
  /\ AccShowsAccept => ~(AccInfo.expires_at < now)

\* C10: in the inbox and under the invitations tab of GroupDetail an
\* invitation that is past its expiry and still pending carries the status
\* expired
C10_ExpiredShownExpired ==
  /\ \A i \in InboxShownInvitations :
       (i.expires_at < now /\ i.status = "pending") => InboxBadge(i) \in {"Expired", "expired"}
  /\ \A i \in ShownInvitations :
       (i.expires_at < now /\ i.status = "pending") =>
         GDInvitationBadge(i) \in {"Expired", "expired"}

\* C12: when a read of a GroupDetail load (group, members, invitations, join
\* requests) fails, the load ends there: no request is issued for it any more,
\* an error notification is raised and, while the page stays mounted, loading
\* is false
C12_FailedReadEndsLoad ==
  [][(/\ page = "GroupDetail" /\ clicks' = clicks /\ lastAct'.kind = "none"
      /\ \E l \in BagToSet(loads) :
            /\ l.comp = "gd" /\ ~l.snap.present
            /\ CopiesIn(l, loads') < CopiesIn(l, loads)
            /\ ~ \E k \in BagToSet(loads') :
                   k = [l EXCEPT !.snap = k.snap] /\ k.snap.present
                   /\ CopiesIn(k, loads') > CopiesIn(k, loads))
     => (/\ toast'.kind = "error"
         /\ \A k \in BagToSet(loads') :
              k.comp = "gd" => CopiesIn(k, loads') <= CopiesIn(k, loads)
         /\ page' = "GroupDetail" => ~gd'.loading)]_vars

\* the members read of a load has failed with a 500: the group is set, the
\* member list is not, nothing is in flight and the spinner is gone
C12_MembersReadFailed ==
  /\ page = "GroupDetail"
  /\ toast = Toast("error", "Server error (500)")
  /\ gd.group # {} /\ gd.members = {}
  /\ ~gd.loading
  /\ loads = EmptyBag

\* C13: on GroupDetail a load that is started while the page stays mounted
\* (route parameter changed, re-fetch after an action) cancels nothing: every
\* load in flight before the step is still in flight after it, so that its
\* responses can be applied after those of the new load
C13_LoadsNeverCancelled ==
  [][(/\ page = "GroupDetail" /\ page' = "GroupDetail"
      /\ \E k \in BagToSet(loads') :
            /\ k.comp = "gd" /\ k.stage = "group" /\ ~k.snap.present
            /\ CopiesIn(k, loads') > CopiesIn(k, loads))
     => \A l \in BagToSet(loads) : CopiesIn(l, loads') >= CopiesIn(l, loads)]_vars

\* the page was opened on g2 and the route then changed to g1 (two gestures);
\* the load of g1 has run through its invitations read, and the group finally
\* displayed is g2, written by the superseded load after the load of g1
C13_SupersededLoadDisplayed ==
  /\ page = "GroupDetail"
  /\ clicks = 2
  /\ gd.groupId = "g1" /\ GroupId = "g2"
  /\ gd.invitations # {}
  /\ ~gd.loading
  /\ loads = EmptyBag /\ acts = EmptyBag

\* C14: the step in which a request of a page fails with 401 (the interceptor
\* assigns the login URL to location.href) raises no notification and sets no
\* error state: neither the page's nor the session manager's
C14_UnauthorizedNotSurfaced ==
  [][(navTarget = <<>> /\ navTarget' # <<>>) =>
       /\ toast'.kind = "none"
       /\ acc'.error = acc.error /\ rtj'.error = rtj.error
       /\ authError' = authError]_vars

\* C15: nothing is sent again on its own.  A step in which a request fails (an
\* error notification or an error state appears) takes the failed request out
\* of flight and sends nothing; a step that is not a gesture of the user sends
\* no mutating call and at most the one read that continues a load or
\* re-fetches the page after a successful call
C15_NoAutomaticRetry ==
  [][LET sub(b1, b0) == \A x \in BagToSet(b1) : CopiesIn(x, b1) <= CopiesIn(x, b0)
         failed == \/ toast'.kind = "error"
                   \/ acc.error = "null" /\ acc'.error # "null"
                   \/ rtj.error = "null" /\ rtj'.error # "null"
         fresh == {k \in BagToSet(loads') : CopiesIn(k, loads') > CopiesIn(k, loads)}
     IN /\ failed =>
             /\ sub(acts', acts)
             /\ (\A k \in fresh : k.comp = "grp" /\ page # "Groups" /\ page' = "Groups")
             /\ (BagCardinality(loads') + BagCardinality(acts')
                   < InFlight + Cardinality(fresh))
        /\ clicks' = clicks =>
             /\ BagCardinality(acts') <= BagCardinality(acts)
             /\ BagCardinality(loads') <=
                  BagCardinality(loads) + (IF lastAct'.ok THEN 1 ELSE 0)]_vars

\* the approval of a join request has just failed with a 403: the error is
\* shown and no request is in flight
C15_ApproveFailedOnce ==
  /\ lastAct = [kind |-> "approve", ok |-> FALSE]
  /\ toast.kind = "error"
  /\ navTarget = <<>>
  /\ acts = EmptyBag /\ loads = EmptyBag

\* C16: for the legacy and for the flat payload, the stored user's
\* email_verified is "unknown" when the payload carries no verification flag
\* and is the flag itself when the payload carries true or false
C16_VerifiedFlagSentinel ==
  (lastFetch.kind = "ok" /\ user # {}) =>
    LET flag == lastFetch.fields.email_verified
    IN \A u \in user :
         u.email_verified = (IF flag = "undefined" THEN "unknown" ELSE flag)

\* C17: when the lookup of an invitation token or of a join token is answered
\* with 404, the page shows its error screen with the "invalid or has
\* expired" message, loading is false and neither the accept nor the submit
\* action is offered
C17_UnknownTokenIsInvalid ==
  [][(/\ StatusIs(lastErr', 404) /\ lastAct'.kind = "none"
      /\ page = "AcceptInvitation" \/ (page = "RequestToJoin" /\ rtj.via = "token"))
     => IF page = "AcceptInvitation"
        THEN /\ acc'.error = "This invitation is invalid or has expired."
             /\ ~acc'.loading
             /\ AccScreen' = "error" /\ ~AccShowsAccept'
        ELSE /\ rtj'.error = "This join link is invalid or has expired."
             /\ ~rtj'.loading
             /\ RtjScreen' = "error" /\ ~RtjShowsSubmit']_vars

\* the lookup of a join token has just been answered with 404
C17_JoinLinkNotFound ==
  /\ page = "RequestToJoin" /\ rtj.via = "token"
  /\ StatusIs(lastErr, 404)
  /\ RtjScreen = "error"
  /\ rtj.error = "This join link is invalid or has expired."
  /\ loads = EmptyBag

\* C18 as stated: whenever a request fails with a 4xx status other than 401
\* and the response body carries a message, the text shown (the error toast,
\* or the error screen of the invitation and join pages) is exactly that
\* message, on every page and for every such status
C18_BodyMessageShownVerbatim ==
  [][LET e == lastErr'
         structured == /\ e.response /\ e.status \in 400..499 /\ e.status # 401
                       /\ e.data.present /\ ~Falsy(e.data.message)
         isLoad == lastAct'.kind = "none"
         shown == IF isLoad /\ page = "AcceptInvitation" THEN acc'.error
                  ELSE IF isLoad /\ page = "RequestToJoin" THEN rtj'.error
                  ELSE IF toast'.kind = "error" THEN toast'.msg
                  ELSE "undefined"
     IN structured => shown = e.data.message]_vars

\* C18 amended: the message of the body is shown verbatim unless the failing
\* request is the load of the group page answered with 403 or 404, or the
\* lookup of an invitation token, a join token or a public group answered
\* with 404; these show the fixed text of the page
C18_BodyMessageShownUnlessPageText ==
  [][LET e == lastErr'
         structured == /\ e.response /\ e.status \in 400..499 /\ e.status # 401
                       /\ e.data.present /\ ~Falsy(e.data.message)
         isLoad == lastAct'.kind = "none"
         shown == IF isLoad /\ page = "AcceptInvitation" THEN acc'.error
                  ELSE IF isLoad /\ page = "RequestToJoin" THEN rtj'.error
                  ELSE IF toast'.kind = "error" THEN toast'.msg
                  ELSE "undefined"
         pageText ==
           IF isLoad /\ page = "GroupDetail" /\ e.status = 403
             THEN "You do not have permission to view this group"
           ELSE IF isLoad /\ page = "GroupDetail" /\ e.status = 404
             THEN "Group not found"
           ELSE IF isLoad /\ page = "AcceptInvitation" /\ e.status = 404
             THEN "This invitation is invalid or has expired."
           ELSE IF isLoad /\ page = "RequestToJoin" /\ e.status = 404
             THEN (IF rtj.via = "group" THEN "This group does not exist."
                   ELSE "This join link is invalid or has expired.")
           ELSE e.data.message
     IN structured => shown = pageText]_vars

\* the lookup of an invitation token was refused with 403 and the error
\* screen shows the message of the response body
C18_RefusalShownVerbatim ==
  /\ page = "AcceptInvitation"
  /\ lastErr = Forbidden
  /\ lastAct.kind = "none"
  /\ acc.error = Forbidden.data.message
  /\ AccScreen = "error"

\* the loading flag of the page that is mounted
PageLoading ==
  CASE page = "Groups"           -> grp.loading
    [] page = "GroupDetail"      -> gd.loading
    [] page = "Dashboard"        -> dash.loading
    [] page = "Invitations"      -> inbox.loading
    [] page = "AcceptInvitation" -> acc.loading
    [] page = "RequestToJoin"    -> rtj.loading

C19_SessionLoadingLifecycle ==
  /\ [][/\ fetches' > fetches => authLoading'
        /\ fetches' < fetches => ~authLoading']_vars
  /\ authLoading ~> ~authLoading

(***************************************************************************)
(* Properties of signing out (SpecLogout)                                  *)
(***************************************************************************)
\* C21: a call of logout sends one GET /logout through the auth instance,
\* with the redirect parameter (the argument, or origin + UI base path + "/"),
\* and nothing else; when the response arrives the browser is sent to the
\* logout_url of the body if the body has one and is left alone if not; a
\* failed request assigns no logout URL and the call resolves all the same;
\* no step of logout changes user, loading or error
C21_LogoutContract ==
  [][LET l == lastLogout'
         uiBasePath == IF env.VITE_UI_BASE_PATH = <<>>
                       THEN <<"/", "d", "e", "r", "i", "v", "a", "/", "a", "p", "p", "s">>
                       ELSE env.VITE_UI_BASE_PATH
         sentNone == /\ httpSent' = NoRequest
                     /\ \A c \in Clients : httpPending'[c] <= httpPending[c]
     IN /\ l.kind = "called" =>
             /\ httpPending' = [httpPending EXCEPT !["auth"] = @ + 1]
             /\ httpSent'.client = "auth" /\ httpSent'.method = "GET"
             /\ httpSent'.path = "/logout"
             /\ httpSent'.redirect = (IF l.redirectUrl # <<>> THEN l.redirectUrl
                                      ELSE Origin \o uiBasePath \o <<"/">>)
             /\ navTarget' = navTarget
             /\ logouts' = logouts + 1
        /\ (l.kind = "resolved" /\ ~l.failed) =>
             /\ sentNone
             /\ logouts' = logouts - 1
             /\ (l.body.present /\ l.body.logout_url # <<>>) => navTarget' = l.body.logout_url
             /\ ~(l.body.present /\ l.body.logout_url # <<>>) => navTarget' = navTarget
        /\ (l.kind = "resolved" /\ l.failed) =>
             /\ sentNone
             /\ logouts' = logouts - 1
             /\ (navTarget' = navTarget \/ StatusIs(l.err, 401))
             /\ (navTarget' = LogoutUrl => navTarget = LogoutUrl)
        /\ l.kind # "none" =>
             /\ user' = user /\ authLoading' = authLoading /\ authError' = authError]_vars

\* a signed-in user has logged out: the legacy service answered with a
\* logout_url, the browser was sent there and the session state still holds
\* the user
C21_LoggedOutStillSignedIn ==
  /\ lastLogout.kind = "resolved" /\ ~lastLogout.failed
  /\ lastLogout.body.logout_url = LogoutUrl
  /\ navTarget = LogoutUrl
  /\ user # {}
  /\ logouts = 0

(***************************************************************************)
(* Properties of the pages, continued (Spec)                               *)
(***************************************************************************)
\* C23: on GroupDetail a read other than the group read is issued only in the
\* step that applies the response of the read before it in the order group,
\* members, invitations, join requests, for the same load, and takes its
\* place (one read per load in flight); the invitations read is issued only
\* if the role of the group response is administrator or manager, and the
\* load of any other viewer ends with the members response
C23_ReadsInOrder ==
  [][LET before(stage) == CASE stage = "members"     -> "group"
                            [] stage = "invitations" -> "members"
                            [] stage = "requests"    -> "invitations"
                            [] OTHER                 -> "none"
         issued == {k \in BagToSet(loads') :
                      /\ k.comp = "gd" /\ k.stage # "group" /\ ~k.snap.present
                      /\ CopiesIn(k, loads') > CopiesIn(k, loads)}
         answered == {l \in BagToSet(loads) :
                        /\ page' = "GroupDetail"
                        /\ l.comp = "gd" /\ l.snap.present
                        /\ CopiesIn(l, loads') < CopiesIn(l, loads)}
         managers == {"administrator", "manager"}
     IN /\ (\A k \in issued :
               /\ BagCardinality(loads') = BagCardinality(loads)
               /\ \E l \in answered :
                    /\ l.stage = before(k.stage)
                    /\ l.gid = k.gid /\ l.cause = k.cause
                    /\ k.role = (IF l.stage = "group"
                                 THEN (CHOOSE g \in l.snap.group : TRUE).role
                                 ELSE l.role)
               /\ k.stage \in {"invitations", "requests"} => k.role \in managers)
        /\ (\A l \in answered :
               (l.stage = "members" /\ l.role \notin managers) =>
                  /\ issued = {}
                  /\ BagCardinality(loads') = BagCardinality(loads) - 1)
        /\ (page = "GroupDetail" /\ page' = "GroupDetail" =>
               \A l \in BagToSet(loads') :
                  (l.comp = "gd" /\ l.stage \in {"invitations", "requests"})
                     => l.role \in managers)]_vars

\* a plain member's load has ended with the members response: the member
\* list is shown and neither invitations nor join requests were read
C23_MemberLoadEnded ==
  /\ page = "GroupDetail" /\ ~gd.loading
  /\ \E g \in gd.group : g.role = "member"
  /\ gd.members # {}
  /\ gd.invitations = {} /\ gd.joinRequests = {}
  /\ loads = EmptyBag /\ clicks = 1

C24_ExpiredForAnonymous ==
  /\ page = "AcceptInvitation" /\ user = {}
  /\ AccScreen = "expired"

\* C25: a call that assigns the administrator role (a member's role change,
\* the approval of a join request, an invitation) is issued only by a viewer
\* whose role on the displayed group is administrator; a manager is offered
\* no such action
C25_OnlyAdminsAssignAdmin ==
  [][\A a \in BagToSet(acts') :
       (/\ a.kind \in {"updateRole", "approve", "invite"}
        /\ a.role = "administrator"
        /\ CopiesIn(a, acts') > CopiesIn(a, acts))
       => GroupRole = "administrator"]_vars

\* C26: whenever GroupDetail is not loading and displays a group, the group,
\* the members, the invitations and the join requests it holds all belong to
\* the group id of the route parameter
C26_DisplayedDataOfRouteGroup ==
  GDRendered =>
    /\ GroupId = gd.groupId
    /\ (\A m \in gd.members : m.group_id = gd.groupId)
    /\ (\A i \in gd.invitations : i.group_id = gd.groupId)
    /\ (\A r \in gd.joinRequests : r.group_id = gd.groupId)

\* C27: on GroupDetail loading = false implies that no read of loadGroupData
\* (started by a route change or by the re-fetch after an action) is still
\* waiting for its response
C27_LoadingWhileReadInFlight ==
  (page = "GroupDetail" /\ ~gd.loading) =>
    (\A l \in BagToSet(loads) : l.comp # "gd")

C28_JoinRequestPending ==
  /\ page = "RequestToJoin"
  /\ rtj.submitting
  /\ RtjScreen = "form" /\ ~RtjShowsSubmit
  /\ BagCardinality(acts) = 1

\* C29: on the Dashboard and in the invitations inbox at most one accept call
\* is in flight for any invitation token
C29_OneAcceptPerInvitation ==
  \A a \in BagToSet(acts) :
    a.kind \in {"acceptDash", "acceptInbox"} => CopiesIn(a, acts) <= 1

\* what the Dashboard shows of a load: recent groups, pending invitations and
\* the four statistics
DashData(d) == [recentGroups |-> d.recentGroups,
                pendingInvitations |-> d.pendingInvitations,
                stats |-> d.stats]

\* C30: a Dashboard load is all-or-nothing: while the page stays mounted the
\* recent groups, the pending invitations and the statistics change only in
\* the step that handles the answer to the second read, and then all of them
\* are computed from the two responses of that one load; a failed read
\* leaves all of them as they were
C30_DashboardLoadAllOrNothing ==
  [][(page = "Dashboard" /\ page' = "Dashboard") =>
       LET done == {l \in BagToSet(loads) :
                      /\ l.comp = "dash" /\ l.stage = "pending" /\ l.snap.present
                      /\ CopiesIn(l, loads') < CopiesIn(l, loads)}
           failed == \E l \in BagToSet(loads) :
                       /\ l.comp = "dash" /\ ~l.snap.present
                       /\ CopiesIn(l, loads') < CopiesIn(l, loads)
                       /\ lastErr' # NoError
       IN /\ (DashData(dash') # DashData(dash) => done # {})
          /\ (\A l \in done :
                /\ dash'.recentGroups = Slice(l.held, 5)
                /\ dash'.pendingInvitations = Slice(l.snap.myInvs, 3)
                /\ dash'.stats.totalGroups = Len(l.held)
                /\ dash'.stats.memberGroups = CountRole(l.held, "member")
                /\ dash'.stats.adminGroups = CountRole(l.held, "administrator")
                /\ dash'.stats.pendingInvitations = Len(l.snap.myInvs))
          /\ (failed => DashData(dash') = DashData(dash))]_vars

\* the re-fetch that follows an accepted invitation has just failed: the
\* page still shows the invitations and the statistics of the load before,
\* one pending invitation more than the service now holds
C30_RefetchFailedNothingChanged ==
  /\ page = "Dashboard" /\ ~dash.loading
  /\ lastErr # NoError
  /\ toast.kind = "error"
  /\ (\A l \in BagToSet(loads) : l.comp # "dash")
  /\ dash.stats.pendingInvitations = Len(SrvPendingInvitations) + 1
  /\ Len(dash.pendingInvitations) = dash.stats.pendingInvitations
  /\ dash.stats.totalGroups = Len(dash.recentGroups)

============================================================================
